---------------------------- MODULE Spec2Model ----------------------------
(***************************************************************************)
(* A model of the trivia server: the room directory (RoomManager), the     *)
(* per-room game engine (GameEngine), the global lobby (GlobalLobby), the  *)
(* global leaderboard (GlobalLeaderboard) and the socket coordinator       *)
(* (SocketHandler) that binds connections to them.                         *)
(*                                                                         *)
(* Every handler runs start-to-finish on the single event loop, so each    *)
(* handler is one atomic action.  Player names are display strings that no *)
(* guard reads; the model leaves them out of the records.                  *)
(***************************************************************************)
EXTENDS Integers, Sequences, FiniteSets, TLC

(***************************************************************************)
(* Bounds of the model.                                                    *)
(***************************************************************************)
\* Player ids handed to the services when they are called directly.
NumPlayers == 3
\* Connections the coordinator serves; connection s is given player id s.
NumSockets == 3
\* Connections accepted at the start; the others connect later, if at all.
NumOpenSockets == 2
\* First value of the lobby game's countdown.  startLobbyGameCountdown sets
\* countdown = 5; the model scales it down.
LobbyCountdown == 2
\* Room codes the generator can draw (the code draws from 36^6).
NumCodes == 2
\* Capacity of a room.  createRoom sets maxPlayers: 8; the model scales the
\* capacity down so that a full room is reachable with NumPlayers ids.
maxPlayers == 3
\* Length of the configured question list (mockQuestions).
NumQuestions == 2
\* Options per question.
NumOptions == 2
\* Retained chat history.  GlobalLobby sets MAX_CHAT_HISTORY = 100; the model
\* scales it down so that trimming is reachable.
MAX_CHAT_HISTORY == 2
\* Longest chat message accepted.  handleLobbyChatMessage rejects a text of
\* more than 500 characters; the model scales the limit down.
MaxMessageLength == 2
\* Games the hosts start in one behaviour.
MaxGames == 1
\* Games started in one behaviour where each room and the lobby run their own.
MaxSessions == 2
\* Entries kept per leaderboard group.  GlobalLeaderboard sets
\* MAX_ENTRIES_PER_GAME = 100; the model scales it down.
MAX_ENTRIES_PER_GAME == 2
\* Quiet period before a scheduled save is written, in clock ticks.
\* GlobalLeaderboard sets SAVE_DELAY_MS = 5000.
SAVE_DELAY_MS == 1
\* The clock runs from 0 to MaxTime.
MaxTime == 2
\* Direct calls of the leaderboard in one behaviour.
MaxBoardCalls == 3

(***************************************************************************)
(* Program constants.                                                      *)
(***************************************************************************)
\* The null of socket.data.currentRoom and of a failed lookup.
NoRoom == 0
\* The null of GameEngine.firstCorrectAnswerer.
NoPlayer == 0
\* The null of GlobalLeaderboard.saveTimeout (timer handles are 1, 2, ...).
NoTimer == 0
\* The socket.io channel 'global-lobby' (room codes are 1..NumCodes).
LobbyChannel == -1
BasePoints == 100
BonusPoints == 150
\* The room code 'lobby-game' under which a lobby game submits its results.
LobbyRoomCode == -2

Players == 1..NumPlayers
Sockets == 1..NumSockets
Codes == 1..NumCodes
\* submit-answer carries any number: the valid indices and one below, one above.
AnswerInputs == (-1)..NumOptions
\* send-lobby-message carries any text: the texts of up to MaxMessageLength + 1
\* characters over a blank and two letters.
Texts(n) == UNION {[1..k -> {" ", "a", "b"}] : k \in 0..n}
ChatInputs == Texts(MaxMessageLength + 1)
\* Scores handed to submitGameResults: below zero, zero, and two positive ones.
ScoreInputs == {0 - BasePoints, 0, BasePoints, BasePoints + BonusPoints}

VARIABLES
    rooms,            \* RoomManager.rooms: code -> Room
    playerRoomMap,    \* RoomManager.playerRoomMap: playerId -> code
    result,           \* the value returned by the last direct call of a service
    now,              \* Date.now()
    engine,           \* a GameEngine driven directly through its methods
    answerLog,        \* history: the answers engine accepted for the current question
    gameEngines,      \* SocketHandler.gameEngines: code -> GameEngine
    socketPlayerMap,  \* SocketHandler.socketPlayerMap: socket -> playerId
    socketData,       \* socket.data of every connection
    connection,       \* transport: "idle" (not yet connected), "open" or "closed"
    joined,           \* socket.io: the channels every socket is subscribed to
    gamesStarted,     \* history: the number of games started so far
    promotedHosts,    \* history: <<code, playerId>> made host by a host's leaving
    lobbyPlayers,     \* GlobalLobby.players, in insertion order
    chatMessages,     \* GlobalLobby.chatMessages
    lobbyGame,        \* GlobalLobby.lobbyGame: Null or <<game>>
    lobbyGameEngine,  \* SocketHandler.lobbyGameEngine: Null or <<engine>>
    intervals,        \* the runtime's countdown intervals: the value each will send next
    leaderboards,     \* GlobalLeaderboard.leaderboards: gameId -> entries
    gameDefinitions,  \* GlobalLeaderboard.gameDefinitions: gameId -> definition
    saveTimeout,      \* GlobalLeaderboard.saveTimeout: the handle of the last timer set
    timers,           \* the runtime's timer queue: the save timers not yet fired or cleared
    files,            \* the two persisted documents: leaderboards.json and games.json
    boardCalls        \* history: the number of direct calls of the leaderboard

(***************************************************************************)
(* Helpers on sequences and maps.                                          *)
(***************************************************************************)
RemoveAt(s, i) == [j \in 1..(Len(s) - 1) |-> IF j < i THEN s[j] ELSE s[j + 1]]

EmptyMap == [x \in {} |-> 0]

\* A nullable field holds Null or the one-element sequence of its value.
Null == << >>

MapDelete(f, k) == [x \in DOMAIN f \ {k} |-> f[x]]

MapSet(f, k, v) == (k :> v) @@ f

\* Array.prototype.findIndex, 1-based; 0 when no element matches (the code's -1).
findIndex(players, playerId) ==
    IF \E i \in 1..Len(players) : players[i].id = playerId
    THEN CHOOSE i \in 1..Len(players) :
            /\ players[i].id = playerId
            /\ \A j \in 1..(i - 1) : players[j].id # playerId
    ELSE 0

(***************************************************************************)
(* RoomManager.  Each operation takes the directory (rs) and the index     *)
(* (prm) and returns the new ones with the value the method returns.       *)
(***************************************************************************)
NewPlayer(playerId, host) ==
    [id |-> playerId, score |-> 0, isConnected |-> TRUE,
     hasAnswered |-> FALSE, isHost |-> host]

\* generateRoomCode without the loop that rejects a code in use.
generateRoomCode_once(rs) == Codes

\* The codes generateRoomCode can return: any code no active room has.
generateRoomCode(rs) == Codes \ DOMAIN rs

createRoom(rs, prm, roomCode, playerId) ==
    LET room == [code |-> roomCode,
                 players |-> <<NewPlayer(playerId, TRUE)>>,
                 state |-> "waiting",
                 currentQuestionIndex |-> 0,
                 maxPlayers |-> maxPlayers]
    IN [rooms |-> MapSet(rs, roomCode, room),
        playerRoomMap |-> MapSet(prm, playerId, roomCode),
        success |-> TRUE, error |-> "", code |-> roomCode]

\* joinRoom recording the player in the index before it validates.
joinRoom_indexFirst(rs, prm, roomCode, playerId) ==
    LET fail(msg) == [rooms |-> rs, playerRoomMap |-> MapSet(prm, playerId, roomCode),
                      success |-> FALSE, error |-> msg, code |-> roomCode]
    IN IF roomCode \notin DOMAIN rs THEN fail("Room not found")
       ELSE LET room == rs[roomCode] IN
       IF Len(room.players) >= room.maxPlayers THEN fail("Room is full")
       ELSE IF \E i \in 1..Len(room.players) : room.players[i].id = playerId
            THEN fail("Player already in room")
       ELSE IF room.state # "waiting" THEN fail("Game already in progress")
       ELSE [rooms |-> [rs EXCEPT ![roomCode].players =
                            Append(@, NewPlayer(playerId, FALSE))],
             playerRoomMap |-> MapSet(prm, playerId, roomCode),
             success |-> TRUE, error |-> "", code |-> roomCode]

\* joinRoom testing membership before capacity.
joinRoom_memberFirst(rs, prm, roomCode, playerId) ==
    LET fail(msg) == [rooms |-> rs, playerRoomMap |-> prm,
                      success |-> FALSE, error |-> msg, code |-> roomCode]
    IN IF roomCode \notin DOMAIN rs THEN fail("Room not found")
       ELSE LET room == rs[roomCode] IN
       IF \E i \in 1..Len(room.players) : room.players[i].id = playerId
       THEN fail("Player already in room")
       ELSE IF Len(room.players) >= room.maxPlayers THEN fail("Room is full")
       ELSE IF room.state # "waiting" THEN fail("Game already in progress")
       ELSE [rooms |-> [rs EXCEPT ![roomCode].players =
                            Append(@, NewPlayer(playerId, FALSE))],
             playerRoomMap |-> MapSet(prm, playerId, roomCode),
             success |-> TRUE, error |-> "", code |-> roomCode]

\* joinRoom without the capacity test.
joinRoom_noCapacity(rs, prm, roomCode, playerId) ==
    LET fail(msg) == [rooms |-> rs, playerRoomMap |-> prm,
                      success |-> FALSE, error |-> msg, code |-> roomCode]
    IN IF roomCode \notin DOMAIN rs THEN fail("Room not found")
       ELSE LET room == rs[roomCode] IN
       IF FALSE THEN fail("Room is full")
       ELSE IF \E i \in 1..Len(room.players) : room.players[i].id = playerId
            THEN fail("Player already in room")
       ELSE IF room.state # "waiting" THEN fail("Game already in progress")
       ELSE [rooms |-> [rs EXCEPT ![roomCode].players =
                            Append(@, NewPlayer(playerId, FALSE))],
             playerRoomMap |-> MapSet(prm, playerId, roomCode),
             success |-> TRUE, error |-> "", code |-> roomCode]

joinRoom(rs, prm, roomCode, playerId) ==
    LET fail(msg) == [rooms |-> rs, playerRoomMap |-> prm,
                      success |-> FALSE, error |-> msg, code |-> roomCode]
    IN IF roomCode \notin DOMAIN rs THEN fail("Room not found")
       ELSE LET room == rs[roomCode] IN
       IF Len(room.players) >= room.maxPlayers THEN fail("Room is full")
       ELSE IF \E i \in 1..Len(room.players) : room.players[i].id = playerId
            THEN fail("Player already in room")
       ELSE IF room.state # "waiting" THEN fail("Game already in progress")
       ELSE [rooms |-> [rs EXCEPT ![roomCode].players =
                            Append(@, NewPlayer(playerId, FALSE))],
             playerRoomMap |-> MapSet(prm, playerId, roomCode),
             success |-> TRUE, error |-> "", code |-> roomCode]

\* leaveRoom leaving the emptied room in the directory.
leaveRoom_keepEmpty(rs, prm, roomCode, playerId) ==
    LET fail(msg) == [rooms |-> rs, playerRoomMap |-> prm,
                      success |-> FALSE, error |-> msg, code |-> roomCode]
    IN IF roomCode \notin DOMAIN rs THEN fail("Room not found")
       ELSE LET room == rs[roomCode]
                playerIndex == findIndex(room.players, playerId)
            IN
       IF playerIndex = 0 THEN fail("Player not in room")
       ELSE LET leavingPlayer == room.players[playerIndex]
                spliced == RemoveAt(room.players, playerIndex)
                promoted == IF leavingPlayer.isHost /\ Len(spliced) > 0
                            THEN [spliced EXCEPT ![1].isHost = TRUE]
                            ELSE spliced
            IN [rooms |-> [rs EXCEPT ![roomCode].players = promoted],
                playerRoomMap |-> MapDelete(prm, playerId),
                success |-> TRUE, error |-> "", code |-> roomCode]

\* leaveRoom promoting the last of the remaining players.
leaveRoom_promoteLast(rs, prm, roomCode, playerId) ==
    LET fail(msg) == [rooms |-> rs, playerRoomMap |-> prm,
                      success |-> FALSE, error |-> msg, code |-> roomCode]
    IN IF roomCode \notin DOMAIN rs THEN fail("Room not found")
       ELSE LET room == rs[roomCode]
                playerIndex == findIndex(room.players, playerId)
            IN
       IF playerIndex = 0 THEN fail("Player not in room")
       ELSE LET leavingPlayer == room.players[playerIndex]
                spliced == RemoveAt(room.players, playerIndex)
                promoted == IF leavingPlayer.isHost /\ Len(spliced) > 0
                            THEN [spliced EXCEPT ![Len(spliced)].isHost = TRUE]
                            ELSE spliced
            IN [rooms |-> IF Len(promoted) = 0
                          THEN MapDelete(rs, roomCode)
                          ELSE [rs EXCEPT ![roomCode].players = promoted],
                playerRoomMap |-> MapDelete(prm, playerId),
                success |-> TRUE, error |-> "", code |-> roomCode]

\* leaveRoom promoting nobody.
leaveRoom_noPromotion(rs, prm, roomCode, playerId) ==
    LET fail(msg) == [rooms |-> rs, playerRoomMap |-> prm,
                      success |-> FALSE, error |-> msg, code |-> roomCode]
    IN IF roomCode \notin DOMAIN rs THEN fail("Room not found")
       ELSE LET room == rs[roomCode]
                playerIndex == findIndex(room.players, playerId)
            IN
       IF playerIndex = 0 THEN fail("Player not in room")
       ELSE LET leavingPlayer == room.players[playerIndex]
                spliced == RemoveAt(room.players, playerIndex)
                promoted == IF leavingPlayer.isHost /\ Len(spliced) > 0
                            THEN spliced
                            ELSE spliced
            IN [rooms |-> IF Len(promoted) = 0
                          THEN MapDelete(rs, roomCode)
                          ELSE [rs EXCEPT ![roomCode].players = promoted],
                playerRoomMap |-> MapDelete(prm, playerId),
                success |-> TRUE, error |-> "", code |-> roomCode]

\* leaveRoom leaving the player's index entry in place.
leaveRoom_keepIndex(rs, prm, roomCode, playerId) ==
    LET fail(msg) == [rooms |-> rs, playerRoomMap |-> prm,
                      success |-> FALSE, error |-> msg, code |-> roomCode]
    IN IF roomCode \notin DOMAIN rs THEN fail("Room not found")
       ELSE LET room == rs[roomCode]
                playerIndex == findIndex(room.players, playerId)
            IN
       IF playerIndex = 0 THEN fail("Player not in room")
       ELSE LET leavingPlayer == room.players[playerIndex]
                spliced == RemoveAt(room.players, playerIndex)
                promoted == IF leavingPlayer.isHost /\ Len(spliced) > 0
                            THEN [spliced EXCEPT ![1].isHost = TRUE]
                            ELSE spliced
            IN [rooms |-> IF Len(promoted) = 0
                          THEN MapDelete(rs, roomCode)
                          ELSE [rs EXCEPT ![roomCode].players = promoted],
                playerRoomMap |-> prm,
                success |-> TRUE, error |-> "", code |-> roomCode]

leaveRoom(rs, prm, roomCode, playerId) ==
    LET fail(msg) == [rooms |-> rs, playerRoomMap |-> prm,
                      success |-> FALSE, error |-> msg, code |-> roomCode]
    IN IF roomCode \notin DOMAIN rs THEN fail("Room not found")
       ELSE LET room == rs[roomCode]
                playerIndex == findIndex(room.players, playerId)
            IN
       IF playerIndex = 0 THEN fail("Player not in room")
       ELSE LET leavingPlayer == room.players[playerIndex]
                spliced == RemoveAt(room.players, playerIndex)
                promoted == IF leavingPlayer.isHost /\ Len(spliced) > 0
                            THEN [spliced EXCEPT ![1].isHost = TRUE]
                            ELSE spliced
            IN [rooms |-> IF Len(promoted) = 0
                          THEN MapDelete(rs, roomCode)
                          ELSE [rs EXCEPT ![roomCode].players = promoted],
                playerRoomMap |-> MapDelete(prm, playerId),
                success |-> TRUE, error |-> "", code |-> roomCode]

getRoom(rs, roomCode) == IF roomCode \in DOMAIN rs THEN roomCode ELSE NoRoom

getRoomByPlayerId(rs, prm, playerId) ==
    IF playerId \notin DOMAIN prm THEN NoRoom ELSE getRoom(rs, prm[playerId])

cleanupEmptyRooms(rs) ==
    [c \in {x \in DOMAIN rs : Len(rs[x].players) # 0} |-> rs[c]]

(***************************************************************************)
(* The configured question list (data/questions.ts).  Question i has id i, *)
(* text i, NumOptions options and the answer key i % NumOptions.           *)
(***************************************************************************)
mockQuestions ==
    [i \in 1..NumQuestions |->
        [id |-> i, question |-> i, audioUrl |-> i,
         options |-> [k \in 1..NumOptions |-> k],
         correctAnswer |-> i % NumOptions]]

(***************************************************************************)
(* GameEngine.  An engine is a record of the class's fields; each method   *)
(* takes the engine and returns the new engine with the method's result.   *)
(* currentQuestionIndex is 0-based as in the code: the current question is *)
(* questions[currentQuestionIndex + 1] of the 1-based TLA+ sequence.       *)
(***************************************************************************)
NoTime == "null"

\* constructor: the players are copied, so the engine never aliases the Room's.
GameEngine(questions, players) ==
    [questions |-> questions,
     players |-> [i \in 1..Len(players) |-> players[i]],
     currentQuestionIndex |-> 0,
     gameStarted |-> FALSE,
     gameFinished |-> FALSE,
     gameStartTime |-> NoTime,
     gameEndTime |-> NoTime,
     firstCorrectAnswerer |-> NoPlayer]

\* forEach assigns scores[player.id] in roster order: the last record of an id wins.
getScores(e) ==
    [id \in {e.players[i].id : i \in 1..Len(e.players)} |->
        LET last == CHOOSE i \in 1..Len(e.players) :
                        /\ e.players[i].id = id
                        /\ \A j \in (i + 1)..Len(e.players) : e.players[j].id # id
        IN e.players[last].score]

\* toClientQuestion keeping the answer key.
toClientQuestion_withKey(e, question) ==
    [id |-> question.id,
     question |-> question.question,
     options |-> question.options,
     audioUrl |-> question.audioUrl,
     correctAnswer |-> question.correctAnswer,
     currentQuestionNumber |-> e.currentQuestionIndex + 1,
     totalQuestions |-> Len(e.questions)]

toClientQuestion(e, question) ==
    [id |-> question.id,
     question |-> question.question,
     options |-> question.options,
     audioUrl |-> question.audioUrl,
     currentQuestionNumber |-> e.currentQuestionIndex + 1,
     totalQuestions |-> Len(e.questions)]

NoQuestion == [none |-> TRUE]

\* startGame without the test of the started flag.
startGame_noStartedCheck(e, t) ==
    LET fail(msg) == [engine |-> e, success |-> FALSE, error |-> msg,
                      question |-> NoQuestion]
    IN IF FALSE THEN fail("Game already started")
       ELSE IF Len(e.questions) = 0 THEN fail("No questions available")
       ELSE IF Len(e.players) = 0 THEN fail("No players in game")
       ELSE LET e2 == [e EXCEPT !.gameStarted = TRUE, !.gameStartTime = t]
            IN [engine |-> e2, success |-> TRUE, error |-> "",
                question |-> toClientQuestion(e2, e2.questions[1])]

startGame(e, t) ==
    LET fail(msg) == [engine |-> e, success |-> FALSE, error |-> msg,
                      question |-> NoQuestion]
    IN IF e.gameStarted THEN fail("Game already started")
       ELSE IF Len(e.questions) = 0 THEN fail("No questions available")
       ELSE IF Len(e.players) = 0 THEN fail("No players in game")
       ELSE LET e2 == [e EXCEPT !.gameStarted = TRUE, !.gameStartTime = t]
            IN [engine |-> e2, success |-> TRUE, error |-> "",
                question |-> toClientQuestion(e2, e2.questions[1])]

\* submitAnswer without the check of the answered flag.
submitAnswer_noAnsweredGuard(e, playerId, answerIndex) ==
    LET fail(msg) == [engine |-> e, success |-> FALSE, error |-> msg,
                      isCorrect |-> FALSE, pointsAwarded |-> 0]
        idx == findIndex(e.players, playerId)
    IN IF ~e.gameStarted THEN fail("Game not started")
       ELSE IF e.gameFinished THEN fail("Game already finished")
       ELSE IF idx = 0 THEN fail("Player not found")
       ELSE IF FALSE THEN fail("Player already answered")
       ELSE LET currentQuestion == e.questions[e.currentQuestionIndex + 1] IN
       IF answerIndex < 0 \/ answerIndex >= Len(currentQuestion.options)
       THEN fail("Invalid answer index")
       ELSE LET isCorrect == answerIndex = currentQuestion.correctAnswer
                first == isCorrect /\ e.firstCorrectAnswerer = NoPlayer
                pointsAwarded == IF ~isCorrect THEN 0
                                 ELSE IF first THEN BonusPoints ELSE BasePoints
            IN [engine |-> [e EXCEPT
                    !.players[idx].hasAnswered = TRUE,
                    !.players[idx].score = @ + pointsAwarded,
                    !.firstCorrectAnswerer = IF first THEN playerId ELSE @],
                success |-> TRUE, error |-> "",
                isCorrect |-> isCorrect, pointsAwarded |-> pointsAwarded]

\* submitAnswer never filling the first-correct-answerer slot.
submitAnswer_bonusForAll(e, playerId, answerIndex) ==
    LET fail(msg) == [engine |-> e, success |-> FALSE, error |-> msg,
                      isCorrect |-> FALSE, pointsAwarded |-> 0]
        idx == findIndex(e.players, playerId)
    IN IF ~e.gameStarted THEN fail("Game not started")
       ELSE IF e.gameFinished THEN fail("Game already finished")
       ELSE IF idx = 0 THEN fail("Player not found")
       ELSE IF e.players[idx].hasAnswered THEN fail("Player already answered")
       ELSE LET currentQuestion == e.questions[e.currentQuestionIndex + 1] IN
       IF answerIndex < 0 \/ answerIndex >= Len(currentQuestion.options)
       THEN fail("Invalid answer index")
       ELSE LET isCorrect == answerIndex = currentQuestion.correctAnswer
                first == isCorrect /\ e.firstCorrectAnswerer = NoPlayer
                pointsAwarded == IF ~isCorrect THEN 0
                                 ELSE IF first THEN BonusPoints ELSE BasePoints
            IN [engine |-> [e EXCEPT
                    !.players[idx].hasAnswered = TRUE,
                    !.players[idx].score = @ + pointsAwarded,
                    !.firstCorrectAnswerer = @],
                success |-> TRUE, error |-> "",
                isCorrect |-> isCorrect, pointsAwarded |-> pointsAwarded]

\* submitAnswer marking the player as answered before it tests the index.
submitAnswer_markFirst(e, playerId, answerIndex) ==
    LET fail(msg) == [engine |-> e, success |-> FALSE, error |-> msg,
                      isCorrect |-> FALSE, pointsAwarded |-> 0]
        idx == findIndex(e.players, playerId)
    IN IF ~e.gameStarted THEN fail("Game not started")
       ELSE IF e.gameFinished THEN fail("Game already finished")
       ELSE IF idx = 0 THEN fail("Player not found")
       ELSE IF e.players[idx].hasAnswered THEN fail("Player already answered")
       ELSE LET currentQuestion == e.questions[e.currentQuestionIndex + 1] IN
       IF answerIndex < 0 \/ answerIndex >= Len(currentQuestion.options)
       THEN [fail("Invalid answer index") EXCEPT
                !.engine.players[idx].hasAnswered = TRUE]
       ELSE LET isCorrect == answerIndex = currentQuestion.correctAnswer
                first == isCorrect /\ e.firstCorrectAnswerer = NoPlayer
                pointsAwarded == IF ~isCorrect THEN 0
                                 ELSE IF first THEN BonusPoints ELSE BasePoints
            IN [engine |-> [e EXCEPT
                    !.players[idx].hasAnswered = TRUE,
                    !.players[idx].score = @ + pointsAwarded,
                    !.firstCorrectAnswerer = IF first THEN playerId ELSE @],
                success |-> TRUE, error |-> "",
                isCorrect |-> isCorrect, pointsAwarded |-> pointsAwarded]

submitAnswer(e, playerId, answerIndex) ==
    LET fail(msg) == [engine |-> e, success |-> FALSE, error |-> msg,
                      isCorrect |-> FALSE, pointsAwarded |-> 0]
        idx == findIndex(e.players, playerId)
    IN IF ~e.gameStarted THEN fail("Game not started")
       ELSE IF e.gameFinished THEN fail("Game already finished")
       ELSE IF idx = 0 THEN fail("Player not found")
       ELSE IF e.players[idx].hasAnswered THEN fail("Player already answered")
       ELSE LET currentQuestion == e.questions[e.currentQuestionIndex + 1] IN
       IF answerIndex < 0 \/ answerIndex >= Len(currentQuestion.options)
       THEN fail("Invalid answer index")
       ELSE LET isCorrect == answerIndex = currentQuestion.correctAnswer
                first == isCorrect /\ e.firstCorrectAnswerer = NoPlayer
                pointsAwarded == IF ~isCorrect THEN 0
                                 ELSE IF first THEN BonusPoints ELSE BasePoints
            IN [engine |-> [e EXCEPT
                    !.players[idx].hasAnswered = TRUE,
                    !.players[idx].score = @ + pointsAwarded,
                    !.firstCorrectAnswerer = IF first THEN playerId ELSE @],
                success |-> TRUE, error |-> "",
                isCorrect |-> isCorrect, pointsAwarded |-> pointsAwarded]

\* nextQuestion leaving the first-correct-answerer slot as it is.
nextQuestion_keepSlot(e, t) ==
    LET fail(msg) == [engine |-> e, success |-> FALSE, error |-> msg,
                      question |-> NoQuestion, gameFinished |-> FALSE]
    IN IF ~e.gameStarted THEN fail("Game not started")
       ELSE IF e.gameFinished THEN fail("Game already finished")
       ELSE LET e2 == [e EXCEPT
                    !.players = [i \in 1..Len(e.players) |->
                                    [e.players[i] EXCEPT !.hasAnswered = FALSE]],
                    !.currentQuestionIndex = @ + 1]
            IN IF e2.currentQuestionIndex >= Len(e2.questions)
               THEN [engine |-> [e2 EXCEPT !.gameFinished = TRUE,
                                           !.gameEndTime = t],
                     success |-> TRUE, error |-> "",
                     question |-> NoQuestion, gameFinished |-> TRUE]
               ELSE [engine |-> e2, success |-> TRUE, error |-> "",
                     question |-> toClientQuestion(e2,
                                     e2.questions[e2.currentQuestionIndex + 1]),
                     gameFinished |-> FALSE]

nextQuestion(e, t) ==
    LET fail(msg) == [engine |-> e, success |-> FALSE, error |-> msg,
                      question |-> NoQuestion, gameFinished |-> FALSE]
    IN IF ~e.gameStarted THEN fail("Game not started")
       ELSE IF e.gameFinished THEN fail("Game already finished")
       ELSE LET e2 == [e EXCEPT
                    !.players = [i \in 1..Len(e.players) |->
                                    [e.players[i] EXCEPT !.hasAnswered = FALSE]],
                    !.firstCorrectAnswerer = NoPlayer,
                    !.currentQuestionIndex = @ + 1]
            IN IF e2.currentQuestionIndex >= Len(e2.questions)
               THEN [engine |-> [e2 EXCEPT !.gameFinished = TRUE,
                                           !.gameEndTime = t],
                     success |-> TRUE, error |-> "",
                     question |-> NoQuestion, gameFinished |-> TRUE]
               ELSE [engine |-> e2, success |-> TRUE, error |-> "",
                     question |-> toClientQuestion(e2,
                                     e2.questions[e2.currentQuestionIndex + 1]),
                     gameFinished |-> FALSE]

\* Array.prototype.sort is stable: an entry goes behind every entry that the
\* comparator (b.score - a.score) does not put after it.
RECURSIVE InsertByScore(_, _)
InsertByScore(sorted, x) ==
    IF sorted = << >> THEN <<x>>
    ELSE IF Head(sorted).score >= x.score
         THEN <<Head(sorted)>> \o InsertByScore(Tail(sorted), x)
         ELSE <<x>> \o sorted

RECURSIVE SortByScore(_)
SortByScore(s) ==
    IF s = << >> THEN << >>
    ELSE InsertByScore(SortByScore(SubSeq(s, 1, Len(s) - 1)), s[Len(s)])

\* getLeaderboard sorting the roster taken back to front.
getLeaderboard_backToFront(e) ==
    SortByScore([i \in 1..Len(e.players) |->
                    [playerId |-> e.players[Len(e.players) + 1 - i].id,
                     score |-> e.players[Len(e.players) + 1 - i].score]])

getLeaderboard(e) ==
    SortByScore([i \in 1..Len(e.players) |->
                    [playerId |-> e.players[i].id, score |-> e.players[i].score]])

\* endGame never reporting a tie.
endGame_neverTie(e, t) ==
    IF ~e.gameStarted
    THEN [engine |-> e, success |-> FALSE, error |-> "Game not started",
          finalScores |-> << >>, winner |-> NoPlayer, winners |-> << >>,
          winnerScore |-> 0, isTie |-> FALSE, duration |-> 0]
    ELSE LET e2 == [e EXCEPT !.gameFinished = TRUE, !.gameEndTime = t]
             leaderboard == getLeaderboard(e2)
             topScore == IF leaderboard = << >> THEN 0 ELSE leaderboard[1].score
             winners == SelectSeq(leaderboard, LAMBDA entry : entry.score = topScore)
             isTie == FALSE
         IN [engine |-> e2, success |-> TRUE, error |-> "",
             finalScores |-> getScores(e2),
             winner |-> IF isTie \/ winners = << >> THEN NoPlayer
                        ELSE winners[1].playerId,
             winners |-> [i \in 1..Len(winners) |-> winners[i].playerId],
             winnerScore |-> topScore,
             isTie |-> isTie,
             duration |-> e2.gameEndTime - e2.gameStartTime]

endGame(e, t) ==
    IF ~e.gameStarted
    THEN [engine |-> e, success |-> FALSE, error |-> "Game not started",
          finalScores |-> << >>, winner |-> NoPlayer, winners |-> << >>,
          winnerScore |-> 0, isTie |-> FALSE, duration |-> 0]
    ELSE LET e2 == [e EXCEPT !.gameFinished = TRUE, !.gameEndTime = t]
             leaderboard == getLeaderboard(e2)
             topScore == IF leaderboard = << >> THEN 0 ELSE leaderboard[1].score
             winners == SelectSeq(leaderboard, LAMBDA entry : entry.score = topScore)
             isTie == Len(winners) > 1
         IN [engine |-> e2, success |-> TRUE, error |-> "",
             finalScores |-> getScores(e2),
             winner |-> IF isTie \/ winners = << >> THEN NoPlayer
                        ELSE winners[1].playerId,
             winners |-> [i \in 1..Len(winners) |-> winners[i].playerId],
             winnerScore |-> topScore,
             isTie |-> isTie,
             duration |-> e2.gameEndTime - e2.gameStartTime]

getCurrentQuestion(e) ==
    IF ~e.gameStarted \/ e.gameFinished THEN NoQuestion
    ELSE toClientQuestion(e, e.questions[e.currentQuestionIndex + 1])

(***************************************************************************)
(* GlobalLobby: players and chat.  lb is the record of the class's fields.  *)
(* A system message has the author id 'system' (NoPlayer here); its text   *)
(* is kept as the kind of notice.                                          *)
(***************************************************************************)
\* trimChatHistory keeping the oldest messages.
trimChatHistory_keepOldest(messages) ==
    IF Len(messages) > MAX_CHAT_HISTORY
    THEN SubSeq(messages, 1, MAX_CHAT_HISTORY)
    ELSE messages

trimChatHistory(messages) ==
    IF Len(messages) > MAX_CHAT_HISTORY
    THEN SubSeq(messages, Len(messages) - MAX_CHAT_HISTORY + 1, Len(messages))
    ELSE messages

\* String.prototype.trim: the text without its leading and trailing blanks.
RECURSIVE trimStart(_)
trimStart(text) ==
    IF text # << >> /\ Head(text) = " " THEN trimStart(Tail(text)) ELSE text

RECURSIVE trimEnd(_)
trimEnd(text) ==
    IF text # << >> /\ text[Len(text)] = " "
    THEN trimEnd(SubSeq(text, 1, Len(text) - 1)) ELSE text

trim(text) == trimEnd(trimStart(text))

\* Returns the lobby and whether the message was added: addMessage throws
\* when the player is not in the lobby.
addMessage(lb, playerId, messageText) ==
    IF findIndex(lb.players, playerId) = 0 THEN [lobby |-> lb, thrown |-> TRUE]
    ELSE [lobby |-> [lb EXCEPT !.chatMessages =
                        trimChatHistory(Append(@, [playerId |-> playerId,
                                                   type |-> "message",
                                                   message |-> trim(messageText)]))],
          thrown |-> FALSE]

addSystemMessage(lb, messageText) ==
    [lb EXCEPT !.chatMessages =
        trimChatHistory(Append(@, [playerId |-> NoPlayer, type |-> "system",
                                   message |-> messageText]))]

\* Map.set: a known key keeps its place in the iteration order.
addPlayer(lb, playerId, t) ==
    LET player == [id |-> playerId, isConnected |-> TRUE, joinedAt |-> t]
        idx == findIndex(lb.players, playerId)
    IN addSystemMessage(
          [lb EXCEPT !.players = IF idx = 0 THEN Append(@, player)
                                 ELSE [@ EXCEPT ![idx] = player]],
          "joined the lobby")

\* Returns the lobby and whether a player was removed.
removePlayer(lb, playerId) ==
    LET idx == findIndex(lb.players, playerId)
    IN IF idx = 0 THEN [lobby |-> lb, removed |-> FALSE]
       ELSE [lobby |-> addSystemMessage(
                          [lb EXCEPT !.players = RemoveAt(@, idx)],
                          "left the lobby"),
             removed |-> TRUE]

RECURSIVE InsertByJoinedAt(_, _)
InsertByJoinedAt(sorted, p) ==
    IF sorted = << >> THEN <<p>>
    ELSE IF p.joinedAt < Head(sorted).joinedAt
         THEN <<p>> \o sorted
         ELSE <<Head(sorted)>> \o InsertByJoinedAt(Tail(sorted), p)

RECURSIVE getAllPlayers(_)
getAllPlayers(players) ==
    IF players = << >> THEN << >>
    ELSE InsertByJoinedAt(getAllPlayers(SubSeq(players, 1, Len(players) - 1)),
                          players[Len(players)])

getConnectedPlayers(lb) ==
    SelectSeq(getAllPlayers(lb.players), LAMBDA p : p.isConnected)

\* canStartLobbyGame content with one connected player.
canStartLobbyGame_alone(lb) ==
    /\ Len(getConnectedPlayers(lb)) >= 1
    /\ \/ lb.lobbyGame = Null
       \/ lb.lobbyGame[1].state = "idle"
       \/ lb.lobbyGame[1].state = "finished"

canStartLobbyGame(lb) ==
    /\ Len(getConnectedPlayers(lb)) >= 2
    /\ \/ lb.lobbyGame = Null
       \/ lb.lobbyGame[1].state = "idle"
       \/ lb.lobbyGame[1].state = "finished"

\* Returns the lobby and the game started, Null when none is.
startLobbyGame(lb, startedByPlayerId, t) ==
    IF ~canStartLobbyGame(lb) THEN [lobby |-> lb, game |-> Null]
    ELSE IF findIndex(lb.players, startedByPlayerId) = 0
         THEN [lobby |-> lb, game |-> Null]
    ELSE LET game == [state |-> "starting",
                      currentQuestionIndex |-> 0,
                      players |-> getConnectedPlayers(lb),
                      startedAt |-> t,
                      startedBy |-> startedByPlayerId]
         IN [lobby |-> addSystemMessage([lb EXCEPT !.lobbyGame = <<game>>],
                                        "started a lobby game"),
             game |-> <<game>>]

updateLobbyGameState(lb, state) ==
    IF lb.lobbyGame # Null THEN [lb EXCEPT !.lobbyGame[1].state = state] ELSE lb

updateLobbyGameQuestion(lb, questionIndex) ==
    IF lb.lobbyGame # Null
    THEN [lb EXCEPT !.lobbyGame[1].currentQuestionIndex = questionIndex]
    ELSE lb

endLobbyGame(lb) ==
    IF lb.lobbyGame # Null
    THEN addSystemMessage([lb EXCEPT !.lobbyGame[1].state = "finished"],
                          "Lobby game ended")
    ELSE lb

cancelLobbyGame(lb) ==
    IF lb.lobbyGame # Null
    THEN addSystemMessage([lb EXCEPT !.lobbyGame[1].state = "idle"],
                          "Lobby game cancelled")
    ELSE lb

\* A persisted document: absent, unparsable, or holding a map.
MissingFile == [status |-> "missing", data |-> << >>]
CorruptFile == [status |-> "corrupt", data |-> << >>]
ValidFile(data) == [status |-> "valid", data |-> data]

(***************************************************************************)
(* GlobalLeaderboard.  board is the record of the class's fields.  The     *)
(* game id is a hash of the (id, text, answer key) of every question; the  *)
(* model takes the hashed text itself for the digest.                      *)
(***************************************************************************)
generateGameId(questions) ==
    [i \in 1..Len(questions) |->
        <<questions[i].id, questions[i].question, questions[i].correctAnswer>>]

\* clearTimeout of the handle held, then setTimeout(saveToFiles, SAVE_DELAY_MS).
\* A timer is [id, due]; the new handle is the least id no pending timer has.
\* scheduleSave setting a timer without clearing the one it holds.
scheduleSave_noClear(board, t) ==
    LET cleared == IF FALSE
                   THEN {tm \in board.timers : tm.id # board.saveTimeout}
                   ELSE board.timers
        free == {n \in 1..(Cardinality(cleared) + 1) :
                    \A tm \in cleared : tm.id # n}
        handle == CHOOSE n \in free : \A m \in free : n <= m
    IN [board EXCEPT !.timers = cleared \cup {[id |-> handle,
                                              due |-> t + SAVE_DELAY_MS]},
                     !.saveTimeout = handle]

scheduleSave(board, t) ==
    LET cleared == IF board.saveTimeout # NoTimer
                   THEN {tm \in board.timers : tm.id # board.saveTimeout}
                   ELSE board.timers
        free == {n \in 1..(Cardinality(cleared) + 1) :
                    \A tm \in cleared : tm.id # n}
        handle == CHOOSE n \in free : \A m \in free : n <= m
    IN [board EXCEPT !.timers = cleared \cup {[id |-> handle,
                                              due |-> t + SAVE_DELAY_MS]},
                     !.saveTimeout = handle]

\* registerGame writing the definition whether or not the game is known.
registerGame_again(board, questions, t) ==
    LET gameId == generateGameId(questions)
    IN IF FALSE THEN board
       ELSE scheduleSave(
              [board EXCEPT !.gameDefinitions =
                  MapSet(@, gameId,
                         [gameId |-> gameId,
                          questionIds |-> [i \in 1..Len(questions) |-> questions[i].id],
                          questionCount |-> Len(questions),
                          createdAt |-> t])],
              t)

registerGame(board, questions, t) ==
    LET gameId == generateGameId(questions)
    IN IF gameId \in DOMAIN board.gameDefinitions THEN board
       ELSE scheduleSave(
              [board EXCEPT !.gameDefinitions =
                  MapSet(@, gameId,
                         [gameId |-> gameId,
                          questionIds |-> [i \in 1..Len(questions) |-> questions[i].id],
                          questionCount |-> Len(questions),
                          createdAt |-> t])],
              t)

\* The comparator of submitGameResults: a negative value puts a before b.
EntryBefore(a, b) ==
    IF b.score # a.score THEN b.score < a.score ELSE a.timestamp < b.timestamp

RECURSIVE InsertEntry(_, _)
InsertEntry(sorted, x) ==
    IF sorted = << >> THEN <<x>>
    ELSE IF EntryBefore(x, Head(sorted))
         THEN <<x>> \o sorted
         ELSE <<Head(sorted)>> \o InsertEntry(Tail(sorted), x)

RECURSIVE SortEntries(_)
SortEntries(s) ==
    IF s = << >> THEN << >>
    ELSE InsertEntry(SortEntries(SubSeq(s, 1, Len(s) - 1)), s[Len(s)])

\* submitGameResults keeping every score that is not negative.
submitGameResults_zeroScores(board, questions, roomCode, playerScores, gameDuration, t) ==
    LET gameId == generateGameId(questions)
        b1 == registerGame(board, questions, t)
        old == IF gameId \in DOMAIN b1.leaderboards
               THEN b1.leaderboards[gameId] ELSE << >>
        positive == SelectSeq(playerScores, LAMBDA ps : ps.score >= 0)
        pushed == old \o [i \in 1..Len(positive) |->
                            [playerId |-> positive[i].playerId,
                             score |-> positive[i].score,
                             roomCode |-> roomCode,
                             timestamp |-> t,
                             gameDuration |-> gameDuration]]
        sorted == SortEntries(pushed)
        kept == IF Len(sorted) > MAX_ENTRIES_PER_GAME
                THEN SubSeq(sorted, 1, MAX_ENTRIES_PER_GAME) ELSE sorted
    IN scheduleSave([b1 EXCEPT !.leaderboards = MapSet(@, gameId, kept)], t)

\* submitGameResults cutting the group from the front.
submitGameResults_keepLast(board, questions, roomCode, playerScores, gameDuration, t) ==
    LET gameId == generateGameId(questions)
        b1 == registerGame(board, questions, t)
        old == IF gameId \in DOMAIN b1.leaderboards
               THEN b1.leaderboards[gameId] ELSE << >>
        positive == SelectSeq(playerScores, LAMBDA ps : ps.score > 0)
        pushed == old \o [i \in 1..Len(positive) |->
                            [playerId |-> positive[i].playerId,
                             score |-> positive[i].score,
                             roomCode |-> roomCode,
                             timestamp |-> t,
                             gameDuration |-> gameDuration]]
        sorted == SortEntries(pushed)
        kept == IF Len(sorted) > MAX_ENTRIES_PER_GAME
                THEN SubSeq(sorted, Len(sorted) - MAX_ENTRIES_PER_GAME + 1, Len(sorted))
                ELSE sorted
    IN scheduleSave([b1 EXCEPT !.leaderboards = MapSet(@, gameId, kept)], t)

submitGameResults(board, questions, roomCode, playerScores, gameDuration, t) ==
    LET gameId == generateGameId(questions)
        b1 == registerGame(board, questions, t)
        old == IF gameId \in DOMAIN b1.leaderboards
               THEN b1.leaderboards[gameId] ELSE << >>
        positive == SelectSeq(playerScores, LAMBDA ps : ps.score > 0)
        pushed == old \o [i \in 1..Len(positive) |->
                            [playerId |-> positive[i].playerId,
                             score |-> positive[i].score,
                             roomCode |-> roomCode,
                             timestamp |-> t,
                             gameDuration |-> gameDuration]]
        sorted == SortEntries(pushed)
        kept == IF Len(sorted) > MAX_ENTRIES_PER_GAME
                THEN SubSeq(sorted, 1, MAX_ENTRIES_PER_GAME) ELSE sorted
    IN scheduleSave([b1 EXCEPT !.leaderboards = MapSet(@, gameId, kept)], t)

clear(board, t) ==
    scheduleSave([board EXCEPT !.leaderboards = EmptyMap,
                               !.gameDefinitions = EmptyMap], t)

\* One try block reads the two documents in turn: a document that is absent
\* is skipped, one that cannot be parsed throws, and the catch only logs, so
\* what was assigned before the throw stays assigned.
loadFromFiles(board, fs) ==
    LET b1 == IF fs.leaderboards.status = "valid"
              THEN [board EXCEPT !.leaderboards = fs.leaderboards.data]
              ELSE board
    IN IF fs.leaderboards.status = "corrupt" THEN b1
       ELSE IF fs.games.status = "valid"
            THEN [b1 EXCEPT !.gameDefinitions = fs.games.data]
            ELSE b1

\* The constructor: the fields' initialisers, then loadFromFiles.
GlobalLeaderboard(fs) ==
    loadFromFiles([leaderboards |-> EmptyMap, gameDefinitions |-> EmptyMap,
                   saveTimeout |-> NoTimer, timers |-> {}], fs)

\* The two documents as saveToFiles writes them.
saveToFiles(board) ==
    [leaderboards |-> ValidFile(board.leaderboards),
     games |-> ValidFile(board.gameDefinitions)]

\* Returns the board and the documents written.
forceSave(board) ==
    LET b1 == IF board.saveTimeout # NoTimer
              THEN [board EXCEPT
                      !.timers = {tm \in @ : tm.id # board.saveTimeout},
                      !.saveTimeout = NoTimer]
              ELSE board
    IN [board |-> b1, fs |-> saveToFiles(b1)]

(***************************************************************************)
(* SocketHandler.  st is the record of everything a handler can touch; a   *)
(* handler takes it and returns it as the handler leaves it, with the      *)
(* events it has emitted, in order, in st.emitted.                         *)
(***************************************************************************)
Event(type, to) ==
    [type |-> type, to |-> to, error |-> "", playerId |-> NoPlayer,
     room |-> NoRoom, scores |-> << >>, correctAnswer |-> -1,
     question |-> NoQuestion, countdown |-> -1]

\* socket.emit, io.to(channel).emit and socket.to(channel).emit
toSocket(s) == {s}
toChannel(st, channel) == {t \in Sockets : channel \in st.joined[t]}
toOthers(st, channel, s) == toChannel(st, channel) \ {s}

Emit(st, ev) == [st EXCEPT !.emitted = Append(@, ev)]

\* EmitError sending the error to every connection.
EmitError_toAll(st, s, msg) == Emit(st, [Event("error", Sockets) EXCEPT !.error = msg])

EmitError(st, s, msg) == Emit(st, [Event("error", toSocket(s)) EXCEPT !.error = msg])

handleCreateRoom(st, s, roomCode) ==
    LET r == createRoom(st.rooms, st.playerRoomMap, roomCode,
                        st.socketData[s].playerId)
        st1 == [st EXCEPT !.rooms = r.rooms,
                          !.playerRoomMap = r.playerRoomMap,
                          !.socketData[s].currentRoom = roomCode,
                          !.joined[s] = @ \cup {roomCode}]
    IN Emit(Emit(st1, [Event("room-created", toSocket(s)) EXCEPT !.room = roomCode]),
            [Event("room-joined", toSocket(s)) EXCEPT
                !.room = roomCode, !.playerId = st.socketData[s].playerId])

handleJoinRoom(st, s, roomCode) ==
    LET playerId == st.socketData[s].playerId
        r == joinRoom(st.rooms, st.playerRoomMap, roomCode, playerId)
    IN IF ~r.success THEN EmitError(st, s, r.error)
       ELSE LET st1 == [st EXCEPT !.rooms = r.rooms,
                                  !.playerRoomMap = r.playerRoomMap,
                                  !.socketData[s].currentRoom = roomCode,
                                  !.joined[s] = @ \cup {roomCode}]
            IN Emit(Emit(st1, [Event("room-joined", toSocket(s)) EXCEPT
                                  !.room = roomCode, !.playerId = playerId]),
                    [Event("player-joined", toOthers(st1, roomCode, s)) EXCEPT
                        !.room = roomCode, !.playerId = playerId])

\* handleLeaveRoom without the clean-up of the engine of a room that is gone.
handleLeaveRoom_keepEngine(st, s) ==
    IF st.socketData[s].currentRoom = NoRoom THEN st
    ELSE LET roomCode == st.socketData[s].currentRoom
             playerId == st.socketData[s].playerId
             r == leaveRoom(st.rooms, st.playerRoomMap, roomCode, playerId)
         IN IF ~r.success THEN st
            ELSE LET st1 == [st EXCEPT !.rooms = r.rooms,
                                       !.playerRoomMap = r.playerRoomMap,
                                       !.joined[s] = @ \ {roomCode}]
                     st2 == Emit(st1, [Event("player-left", toOthers(st1, roomCode, s))
                                          EXCEPT !.room = roomCode,
                                                 !.playerId = playerId])
                 IN [st2 EXCEPT
                       !.socketData[s].currentRoom = NoRoom,
                       !.gameEngines = @]

handleLeaveRoom(st, s) ==
    IF st.socketData[s].currentRoom = NoRoom THEN st
    ELSE LET roomCode == st.socketData[s].currentRoom
             playerId == st.socketData[s].playerId
             r == leaveRoom(st.rooms, st.playerRoomMap, roomCode, playerId)
         IN IF ~r.success THEN st
            ELSE LET st1 == [st EXCEPT !.rooms = r.rooms,
                                       !.playerRoomMap = r.playerRoomMap,
                                       !.joined[s] = @ \ {roomCode}]
                     st2 == Emit(st1, [Event("player-left", toOthers(st1, roomCode, s))
                                          EXCEPT !.room = roomCode,
                                                 !.playerId = playerId])
                 IN [st2 EXCEPT
                       !.socketData[s].currentRoom = NoRoom,
                       !.gameEngines = IF getRoom(r.rooms, roomCode) = NoRoom
                                       THEN MapDelete(@, roomCode) ELSE @]

\* handleStartGame without the host check.
handleStartGame_anyMember(st, s) ==
    LET roomCode == st.socketData[s].currentRoom
        playerId == st.socketData[s].playerId
    IN IF roomCode = NoRoom THEN EmitError(st, s, "Not in a room")
       ELSE IF getRoom(st.rooms, roomCode) = NoRoom
            THEN EmitError(st, s, "Room not found")
       ELSE LET room == st.rooms[roomCode]
                idx == findIndex(room.players, playerId)
            IN
       IF idx = 0
       THEN EmitError(st, s, "Only host can start the game")
       ELSE LET r == startGame(GameEngine(mockQuestions, room.players), st.now)
                st1 == [st EXCEPT !.gameEngines = MapSet(@, roomCode, r.engine)]
            IN IF r.success
               THEN Emit([st1 EXCEPT !.rooms[roomCode].state = "playing"],
                         [Event("game-started", toChannel(st1, roomCode)) EXCEPT
                             !.room = roomCode, !.question = r.question])
               ELSE EmitError(st1, s, r.error)

\* handleStartGame keeping one engine for all the rooms.
handleStartGame_oneEngine(st, s) ==
    LET roomCode == st.socketData[s].currentRoom
        playerId == st.socketData[s].playerId
    IN IF roomCode = NoRoom THEN EmitError(st, s, "Not in a room")
       ELSE IF getRoom(st.rooms, roomCode) = NoRoom
            THEN EmitError(st, s, "Room not found")
       ELSE LET room == st.rooms[roomCode]
                idx == findIndex(room.players, playerId)
            IN
       IF idx = 0 \/ ~room.players[idx].isHost
       THEN EmitError(st, s, "Only host can start the game")
       ELSE LET r == startGame(GameEngine(mockQuestions, room.players), st.now)
                st1 == [st EXCEPT !.gameEngines =
                                [c \in DOMAIN st.rooms |-> r.engine]]
            IN IF r.success
               THEN Emit([st1 EXCEPT !.rooms[roomCode].state = "playing"],
                         [Event("game-started", toChannel(st1, roomCode)) EXCEPT
                             !.room = roomCode, !.question = r.question])
               ELSE EmitError(st1, s, r.error)

handleStartGame(st, s) ==
    LET roomCode == st.socketData[s].currentRoom
        playerId == st.socketData[s].playerId
    IN IF roomCode = NoRoom THEN EmitError(st, s, "Not in a room")
       ELSE IF getRoom(st.rooms, roomCode) = NoRoom
            THEN EmitError(st, s, "Room not found")
       ELSE LET room == st.rooms[roomCode]
                idx == findIndex(room.players, playerId)
            IN
       IF idx = 0 \/ ~room.players[idx].isHost
       THEN EmitError(st, s, "Only host can start the game")
       ELSE LET r == startGame(GameEngine(mockQuestions, room.players), st.now)
                st1 == [st EXCEPT !.gameEngines = MapSet(@, roomCode, r.engine)]
            IN IF r.success
               THEN Emit([st1 EXCEPT !.rooms[roomCode].state = "playing"],
                         [Event("game-started", toChannel(st1, roomCode)) EXCEPT
                             !.room = roomCode, !.question = r.question])
               ELSE EmitError(st1, s, r.error)

\* gameEngine.getPlayers().every(p => p.hasAnswered)
allAnswered(e) == \A i \in 1..Len(e.players) : e.players[i].hasAnswered

\* handleSubmitAnswer with an engine that works on the Room's own player records.
handleSubmitAnswer_shared(st, s, answerIndex) ==
    LET roomCode == st.socketData[s].currentRoom
        playerId == st.socketData[s].playerId
    IN IF roomCode = NoRoom THEN EmitError(st, s, "Not in a room")
       ELSE IF roomCode \notin DOMAIN st.gameEngines
            THEN EmitError(st, s, "Game not started")
       ELSE LET r == submitAnswer(st.gameEngines[roomCode], playerId, answerIndex)
            IN
       IF ~r.success THEN EmitError(st, s, r.error)
       ELSE LET st1 == Emit([st EXCEPT !.gameEngines[roomCode] = r.engine,
                                          !.rooms[roomCode].players =
                                             [i \in 1..Len(@) |->
                                                [@[i] EXCEPT !.hasAnswered =
                                                    \/ @
                                                    \/ st.rooms[roomCode].players[i].id = playerId]]],
                            [Event("player-answered", toChannel(st, roomCode))
                                EXCEPT !.room = roomCode, !.playerId = playerId])
                e == r.engine
            IN IF allAnswered(e)
               THEN Emit(st1, [Event("round-results", toChannel(st, roomCode))
                                  EXCEPT !.room = roomCode,
                                         !.scores = getScores(e),
                                         !.correctAnswer =
                                            e.questions[e.currentQuestionIndex + 1]
                                                .correctAnswer])
               ELSE st1

\* handleSubmitAnswer revealing the results after every accepted answer.
handleSubmitAnswer_revealEach(st, s, answerIndex) ==
    LET roomCode == st.socketData[s].currentRoom
        playerId == st.socketData[s].playerId
    IN IF roomCode = NoRoom THEN EmitError(st, s, "Not in a room")
       ELSE IF roomCode \notin DOMAIN st.gameEngines
            THEN EmitError(st, s, "Game not started")
       ELSE LET r == submitAnswer(st.gameEngines[roomCode], playerId, answerIndex)
            IN
       IF ~r.success THEN EmitError(st, s, r.error)
       ELSE LET st1 == Emit([st EXCEPT !.gameEngines[roomCode] = r.engine],
                            [Event("player-answered", toChannel(st, roomCode))
                                EXCEPT !.room = roomCode, !.playerId = playerId])
                e == r.engine
            IN IF TRUE
               THEN Emit(st1, [Event("round-results", toChannel(st, roomCode))
                                  EXCEPT !.room = roomCode,
                                         !.scores = getScores(e),
                                         !.correctAnswer =
                                            e.questions[e.currentQuestionIndex + 1]
                                                .correctAnswer])
               ELSE st1

handleSubmitAnswer(st, s, answerIndex) ==
    LET roomCode == st.socketData[s].currentRoom
        playerId == st.socketData[s].playerId
    IN IF roomCode = NoRoom THEN EmitError(st, s, "Not in a room")
       ELSE IF roomCode \notin DOMAIN st.gameEngines
            THEN EmitError(st, s, "Game not started")
       ELSE LET r == submitAnswer(st.gameEngines[roomCode], playerId, answerIndex)
            IN
       IF ~r.success THEN EmitError(st, s, r.error)
       ELSE LET st1 == Emit([st EXCEPT !.gameEngines[roomCode] = r.engine],
                            [Event("player-answered", toChannel(st, roomCode))
                                EXCEPT !.room = roomCode, !.playerId = playerId])
                e == r.engine
            IN IF allAnswered(e)
               THEN Emit(st1, [Event("round-results", toChannel(st, roomCode))
                                  EXCEPT !.room = roomCode,
                                         !.scores = getScores(e),
                                         !.correctAnswer =
                                            e.questions[e.currentQuestionIndex + 1]
                                                .correctAnswer])
               ELSE st1

\* handleNextQuestion keeping the engine of a finished game.
handleNextQuestion_keepEngine(st, s) ==
    LET roomCode == st.socketData[s].currentRoom
        playerId == st.socketData[s].playerId
    IN IF roomCode = NoRoom THEN EmitError(st, s, "Not in a room")
       ELSE IF getRoom(st.rooms, roomCode) = NoRoom
            THEN EmitError(st, s, "Room not found")
       ELSE LET room == st.rooms[roomCode]
                idx == findIndex(room.players, playerId)
            IN
       IF idx = 0 \/ ~room.players[idx].isHost
       THEN EmitError(st, s, "Only host can advance to next question")
       ELSE IF roomCode \notin DOMAIN st.gameEngines
            THEN EmitError(st, s, "Game not started")
       ELSE LET r == nextQuestion(st.gameEngines[roomCode], st.now) IN
       IF ~r.success THEN EmitError(st, s, r.error)
       ELSE IF r.gameFinished
       THEN LET endResult == endGame(r.engine, st.now)
                e == endResult.engine
                gameScores == getScores(e)
                playerScores == [i \in 1..Len(e.players) |->
                                    [playerId |-> e.players[i].id,
                                     score |-> gameScores[e.players[i].id]]]
                board == submitGameResults(st.board, mockQuestions, roomCode,
                                           playerScores, endResult.duration, st.now)
            IN Emit([st EXCEPT !.rooms[roomCode].state = "finished",
                               !.board = board],
                    [Event("game-ended", toChannel(st, roomCode)) EXCEPT
                        !.room = roomCode, !.scores = endResult.finalScores])
       ELSE Emit([st EXCEPT !.gameEngines[roomCode] = r.engine],
                 [Event("next-question", toChannel(st, roomCode)) EXCEPT
                     !.room = roomCode, !.question = r.question])

\* handleNextQuestion not marking the room finished.
handleNextQuestion_noStateWrite(st, s) ==
    LET roomCode == st.socketData[s].currentRoom
        playerId == st.socketData[s].playerId
    IN IF roomCode = NoRoom THEN EmitError(st, s, "Not in a room")
       ELSE IF getRoom(st.rooms, roomCode) = NoRoom
            THEN EmitError(st, s, "Room not found")
       ELSE LET room == st.rooms[roomCode]
                idx == findIndex(room.players, playerId)
            IN
       IF idx = 0 \/ ~room.players[idx].isHost
       THEN EmitError(st, s, "Only host can advance to next question")
       ELSE IF roomCode \notin DOMAIN st.gameEngines
            THEN EmitError(st, s, "Game not started")
       ELSE LET r == nextQuestion(st.gameEngines[roomCode], st.now) IN
       IF ~r.success THEN EmitError(st, s, r.error)
       ELSE IF r.gameFinished
       THEN LET endResult == endGame(r.engine, st.now)
                e == endResult.engine
                gameScores == getScores(e)
                playerScores == [i \in 1..Len(e.players) |->
                                    [playerId |-> e.players[i].id,
                                     score |-> gameScores[e.players[i].id]]]
                board == submitGameResults(st.board, mockQuestions, roomCode,
                                           playerScores, endResult.duration, st.now)
            IN Emit([st EXCEPT !.board = board,
                               !.gameEngines = MapDelete(@, roomCode)],
                    [Event("game-ended", toChannel(st, roomCode)) EXCEPT
                        !.room = roomCode, !.scores = endResult.finalScores])
       ELSE Emit([st EXCEPT !.gameEngines[roomCode] = r.engine],
                 [Event("next-question", toChannel(st, roomCode)) EXCEPT
                     !.room = roomCode, !.question = r.question])

\* handleNextQuestion opening the room again when the game is over.
handleNextQuestion_reopen(st, s) ==
    LET roomCode == st.socketData[s].currentRoom
        playerId == st.socketData[s].playerId
    IN IF roomCode = NoRoom THEN EmitError(st, s, "Not in a room")
       ELSE IF getRoom(st.rooms, roomCode) = NoRoom
            THEN EmitError(st, s, "Room not found")
       ELSE LET room == st.rooms[roomCode]
                idx == findIndex(room.players, playerId)
            IN
       IF idx = 0 \/ ~room.players[idx].isHost
       THEN EmitError(st, s, "Only host can advance to next question")
       ELSE IF roomCode \notin DOMAIN st.gameEngines
            THEN EmitError(st, s, "Game not started")
       ELSE LET r == nextQuestion(st.gameEngines[roomCode], st.now) IN
       IF ~r.success THEN EmitError(st, s, r.error)
       ELSE IF r.gameFinished
       THEN LET endResult == endGame(r.engine, st.now)
                e == endResult.engine
                gameScores == getScores(e)
                playerScores == [i \in 1..Len(e.players) |->
                                    [playerId |-> e.players[i].id,
                                     score |-> gameScores[e.players[i].id]]]
                board == submitGameResults(st.board, mockQuestions, roomCode,
                                           playerScores, endResult.duration, st.now)
            IN Emit([st EXCEPT !.rooms[roomCode].state = "waiting",
                               !.board = board,
                               !.gameEngines = MapDelete(@, roomCode)],
                    [Event("game-ended", toChannel(st, roomCode)) EXCEPT
                        !.room = roomCode, !.scores = endResult.finalScores])
       ELSE Emit([st EXCEPT !.gameEngines[roomCode] = r.engine],
                 [Event("next-question", toChannel(st, roomCode)) EXCEPT
                     !.room = roomCode, !.question = r.question])

handleNextQuestion(st, s) ==
    LET roomCode == st.socketData[s].currentRoom
        playerId == st.socketData[s].playerId
    IN IF roomCode = NoRoom THEN EmitError(st, s, "Not in a room")
       ELSE IF getRoom(st.rooms, roomCode) = NoRoom
            THEN EmitError(st, s, "Room not found")
       ELSE LET room == st.rooms[roomCode]
                idx == findIndex(room.players, playerId)
            IN
       IF idx = 0 \/ ~room.players[idx].isHost
       THEN EmitError(st, s, "Only host can advance to next question")
       ELSE IF roomCode \notin DOMAIN st.gameEngines
            THEN EmitError(st, s, "Game not started")
       ELSE LET r == nextQuestion(st.gameEngines[roomCode], st.now) IN
       IF ~r.success THEN EmitError(st, s, r.error)
       ELSE IF r.gameFinished
       THEN LET endResult == endGame(r.engine, st.now)
                e == endResult.engine
                gameScores == getScores(e)
                playerScores == [i \in 1..Len(e.players) |->
                                    [playerId |-> e.players[i].id,
                                     score |-> gameScores[e.players[i].id]]]
                board == submitGameResults(st.board, mockQuestions, roomCode,
                                           playerScores, endResult.duration, st.now)
            IN Emit([st EXCEPT !.rooms[roomCode].state = "finished",
                               !.board = board,
                               !.gameEngines = MapDelete(@, roomCode)],
                    [Event("game-ended", toChannel(st, roomCode)) EXCEPT
                        !.room = roomCode, !.scores = endResult.finalScores])
       ELSE Emit([st EXCEPT !.gameEngines[roomCode] = r.engine],
                 [Event("next-question", toChannel(st, roomCode)) EXCEPT
                     !.room = roomCode, !.question = r.question])

handleJoinLobby(st, s) ==
    LET playerId == st.socketData[s].playerId
        st1 == [st EXCEPT !.socketData[s].inLobby = TRUE,
                          !.lobby = addPlayer(@, playerId, st.now),
                          !.joined[s] = @ \cup {LobbyChannel}]
        st2 == Emit(st1, Event("lobby-chat-history", toSocket(s)))
        st3 == Emit(st2, Event("lobby-players-updated", toSocket(s)))
        st4 == Emit(st3, [Event("lobby-player-joined",
                                toOthers(st1, LobbyChannel, s))
                             EXCEPT !.playerId = playerId])
    IN Emit(st4, Event("lobby-players-updated", toOthers(st1, LobbyChannel, s)))

handleLeaveLobby(st, s) ==
    IF ~st.socketData[s].inLobby THEN st
    ELSE LET playerId == st.socketData[s].playerId
             r == removePlayer(st.lobby, playerId)
         IN IF ~r.removed THEN st
            ELSE LET st1 == [st EXCEPT !.lobby = r.lobby,
                                       !.joined[s] = @ \ {LobbyChannel},
                                       !.socketData[s].inLobby = FALSE]
                     st2 == Emit(st1, [Event("lobby-player-left",
                                             toOthers(st1, LobbyChannel, s))
                                          EXCEPT !.playerId = playerId])
                 IN Emit(st2, Event("lobby-players-updated",
                                    toOthers(st1, LobbyChannel, s)))

handleLobbyChatMessage(st, s, messageText) ==
    IF ~st.socketData[s].inLobby THEN EmitError(st, s, "Not in lobby")
    ELSE IF trim(messageText) = << >>
         THEN EmitError(st, s, "Message cannot be empty")
    ELSE IF Len(messageText) > MaxMessageLength
         THEN EmitError(st, s, "Message too long")
    ELSE LET r == addMessage(st.lobby, st.socketData[s].playerId, messageText)
         IN IF r.thrown THEN EmitError(st, s, "Failed to send message")
            ELSE Emit([st EXCEPT !.lobby = r.lobby],
                      [Event("lobby-chat-message", toChannel(st, LobbyChannel))
                          EXCEPT !.playerId = st.socketData[s].playerId])

\* GlobalLobby has no method resetLobbyGame: the call made for a playing game
\* none of whose players is connected throws, and the handler's catch sends
\* its error.
handleStartLobbyGame(st, s) ==
    LET playerId == st.socketData[s].playerId
        connectedPlayers == getConnectedPlayers(st.lobby)
        currentLobbyGame == st.lobby.lobbyGame
        stuck == /\ currentLobbyGame # Null
                 /\ currentLobbyGame[1].state = "playing"
                 /\ ~\E i \in 1..Len(connectedPlayers) :
                        findIndex(currentLobbyGame[1].players,
                                  connectedPlayers[i].id) # 0
    IN IF ~st.socketData[s].inLobby THEN EmitError(st, s, "Not in lobby")
       ELSE IF stuck THEN EmitError(st, s, "Failed to start lobby game")
       ELSE IF ~canStartLobbyGame(st.lobby)
            THEN EmitError(st, s, "Cannot start lobby game")
       ELSE LET r == startLobbyGame(st.lobby, playerId, st.now) IN
       IF r.game = Null THEN EmitError(st, s, "Failed to start lobby game")
       ELSE LET gamePlayers ==
                    [i \in 1..Len(r.game[1].players) |->
                        [id |-> r.game[1].players[i].id,
                         score |-> 0,
                         isConnected |-> r.game[1].players[i].isConnected,
                         hasAnswered |-> FALSE,
                         isHost |-> r.game[1].players[i].id = playerId]]
            IN [st EXCEPT !.lobby = r.lobby,
                          !.lobbyGameEngine = <<GameEngine(mockQuestions, gamePlayers)>>,
                          !.intervals = Append(@, LobbyCountdown)]

startLobbyGameNow(st) ==
    IF st.lobbyGameEngine = Null
    THEN Emit(st, Event("lobby-game-cancelled", toChannel(st, LobbyChannel)))
    ELSE LET r == startGame(st.lobbyGameEngine[1], st.now) IN
         IF r.success
         THEN Emit([st EXCEPT !.lobbyGameEngine = <<r.engine>>,
                              !.lobby = updateLobbyGameState(@, "playing")],
                   [Event("lobby-game-started", toChannel(st, LobbyChannel))
                       EXCEPT !.question = r.question])
         ELSE Emit([st EXCEPT !.lobby = cancelLobbyGame(@)],
                   Event("lobby-game-cancelled", toChannel(st, LobbyChannel)))

\* The callback of the interval startLobbyGameCountdown sets, for interval i.
\* The countdown starting the game one tick before it has reached 0.
countdownTick_early(st, i) ==
    LET countdown == st.intervals[i]
        st1 == Emit(st, [Event("lobby-game-starting", toChannel(st, LobbyChannel))
                            EXCEPT !.countdown = countdown])
    IN IF countdown <= 1
       THEN startLobbyGameNow([st1 EXCEPT !.intervals = RemoveAt(@, i)])
       ELSE [st1 EXCEPT !.intervals[i] = countdown - 1]

countdownTick(st, i) ==
    LET countdown == st.intervals[i]
        st1 == Emit(st, [Event("lobby-game-starting", toChannel(st, LobbyChannel))
                            EXCEPT !.countdown = countdown])
    IN IF countdown <= 0
       THEN startLobbyGameNow([st1 EXCEPT !.intervals = RemoveAt(@, i)])
       ELSE [st1 EXCEPT !.intervals[i] = countdown - 1]

handleSubmitLobbyAnswer(st, s, answerIndex) ==
    LET playerId == st.socketData[s].playerId
    IN IF ~st.socketData[s].inLobby THEN EmitError(st, s, "Not in lobby")
       ELSE IF st.lobbyGameEngine = Null
            THEN EmitError(st, s, "No lobby game in progress")
       ELSE LET r == submitAnswer(st.lobbyGameEngine[1], playerId, answerIndex)
            IN
       IF ~r.success THEN EmitError(st, s, r.error)
       ELSE LET st1 == Emit([st EXCEPT !.lobbyGameEngine = <<r.engine>>],
                            [Event("lobby-game-player-answered",
                                   toChannel(st, LobbyChannel))
                                EXCEPT !.playerId = playerId])
                e == r.engine
            IN IF allAnswered(e)
               THEN Emit(st1, [Event("lobby-game-round-results",
                                     toChannel(st, LobbyChannel))
                                  EXCEPT !.scores = getScores(e),
                                         !.correctAnswer =
                                            e.questions[e.currentQuestionIndex + 1]
                                                .correctAnswer])
               ELSE st1

handleLobbyNextQuestion(st, s) ==
    LET playerId == st.socketData[s].playerId
    IN IF ~st.socketData[s].inLobby THEN EmitError(st, s, "Not in lobby")
       ELSE IF st.lobbyGameEngine = Null
            THEN EmitError(st, s, "No lobby game in progress")
       ELSE IF st.lobby.lobbyGame = Null
               \/ st.lobby.lobbyGame[1].startedBy # playerId
            THEN EmitError(st, s, "Only the game starter can advance questions")
       ELSE LET r == nextQuestion(st.lobbyGameEngine[1], st.now) IN
       IF ~r.success THEN EmitError(st, s, r.error)
       ELSE IF r.gameFinished
       THEN LET endResult == endGame(r.engine, st.now)
                e == endResult.engine
                gameScores == getScores(e)
                playerScores == [i \in 1..Len(e.players) |->
                                    [playerId |-> e.players[i].id,
                                     score |-> gameScores[e.players[i].id]]]
                board == submitGameResults(st.board, mockQuestions, LobbyRoomCode,
                                           playerScores, endResult.duration, st.now)
            IN Emit([st EXCEPT !.lobby = endLobbyGame(@),
                               !.board = board,
                               !.lobbyGameEngine = Null],
                    [Event("lobby-game-ended", toChannel(st, LobbyChannel))
                        EXCEPT !.scores = endResult.finalScores])
       ELSE Emit([st EXCEPT !.lobbyGameEngine = <<r.engine>>,
                            !.lobby = updateLobbyGameQuestion(
                                         @, r.engine.currentQuestionIndex)],
                 [Event("lobby-game-next-question", toChannel(st, LobbyChannel))
                     EXCEPT !.question = r.question])

handleDisconnect(st, s) ==
    LET st1 == IF st.socketData[s].currentRoom # NoRoom
               THEN handleLeaveRoom(st, s) ELSE st
        st2 == IF st1.socketData[s].inLobby
               THEN handleLeaveLobby(st1, s) ELSE st1
    IN [st2 EXCEPT !.socketPlayerMap = MapDelete(@, s)]

(***************************************************************************)
(* The directory driven directly through its methods, with any arguments.  *)
(* The Room objects it hands out are shared: the coordinator writes their  *)
(* state field (RoomStateWrite).                                           *)
(***************************************************************************)
\* What the last call was and returned; wasHost tells whether the player named
\* was the host of the room named when the call was made.
NoCall == [op |-> "none", success |-> TRUE, error |-> "", code |-> NoRoom,
           playerId |-> NoPlayer, wasHost |-> FALSE]

IsHostOf(rs, roomCode, playerId) ==
    /\ roomCode \in DOMAIN rs
    /\ \E i \in 1..Len(rs[roomCode].players) :
          /\ rs[roomCode].players[i].id = playerId
          /\ rs[roomCode].players[i].isHost

Called(op, r, playerId) ==
    [op |-> op, success |-> r.success, error |-> r.error, code |-> r.code,
     playerId |-> playerId, wasHost |-> IsHostOf(rooms, r.code, playerId)]

rmVars == <<rooms, playerRoomMap>>
engineVars == <<engine, answerLog>>
clockVars == <<now>>
coordVars == <<gameEngines, socketPlayerMap, socketData, connection, joined,
               promotedHosts, gamesStarted, lobbyGameEngine, intervals>>
lobbyVars == <<lobbyPlayers, chatMessages, lobbyGame>>
boardVars == <<leaderboards, gameDefinitions, saveTimeout, timers, files>>
historyVars == <<boardCalls>>

\* The 'connection' handler: socket.data is initialised, the id registered.
\* Connection s is given the player id s.
NewSocketData(s) == [playerId |-> s, currentRoom |-> NoRoom, inLobby |-> FALSE]

\* The coordinator, the lobby and the leaderboard after construction, with
\* the connections of the model accepted.
InitCoordinator ==
    /\ gameEngines = EmptyMap
    /\ socketPlayerMap = [s \in 1..NumOpenSockets |-> NewSocketData(s).playerId]
    /\ socketData = [s \in Sockets |-> NewSocketData(s)]
    /\ connection = [s \in Sockets |-> IF s <= NumOpenSockets THEN "open" ELSE "idle"]
    /\ joined = [s \in Sockets |-> {}]
    /\ promotedHosts = {}
    /\ gamesStarted = 0
    /\ lobbyPlayers = << >>
    /\ chatMessages = << >>
    /\ lobbyGame = Null
    /\ lobbyGameEngine = Null
    /\ intervals = << >>
    /\ leaderboards = EmptyMap
    /\ gameDefinitions = EmptyMap
    /\ saveTimeout = NoTimer
    /\ timers = {}
    /\ files = [leaderboards |-> MissingFile, games |-> MissingFile]
    /\ boardCalls = 0

\* The state after construction of every service; no engine is under test.
InitServices ==
    /\ rooms = EmptyMap
    /\ playerRoomMap = EmptyMap
    /\ engine = GameEngine(<< >>, << >>)
    /\ answerLog = << >>
    /\ now = 0
    /\ InitCoordinator

InitRM ==
    /\ InitServices
    /\ result = NoCall

CallCreateRoom ==
    \E playerId \in Players, roomCode \in generateRoomCode(rooms) :
        LET r == createRoom(rooms, playerRoomMap, roomCode, playerId) IN
        /\ rooms' = r.rooms
        /\ playerRoomMap' = r.playerRoomMap
        /\ result' = Called("createRoom", r, playerId)
        /\ UNCHANGED <<engineVars, clockVars, coordVars, lobbyVars, boardVars, historyVars>>

CallJoinRoom ==
    \E playerId \in Players, roomCode \in Codes :
        LET r == joinRoom(rooms, playerRoomMap, roomCode, playerId) IN
        /\ rooms' = r.rooms
        /\ playerRoomMap' = r.playerRoomMap
        /\ result' = Called("joinRoom", r, playerId)
        /\ UNCHANGED <<engineVars, clockVars, coordVars, lobbyVars, boardVars, historyVars>>

CallLeaveRoom ==
    \E playerId \in Players, roomCode \in Codes :
        LET r == leaveRoom(rooms, playerRoomMap, roomCode, playerId) IN
        /\ rooms' = r.rooms
        /\ playerRoomMap' = r.playerRoomMap
        /\ result' = Called("leaveRoom", r, playerId)
        /\ UNCHANGED <<engineVars, clockVars, coordVars, lobbyVars, boardVars, historyVars>>

CallCleanupEmptyRooms ==
    /\ rooms' = cleanupEmptyRooms(rooms)
    /\ result' = [NoCall EXCEPT !.op = "cleanupEmptyRooms"]
    /\ UNCHANGED <<playerRoomMap, engineVars, clockVars, coordVars, lobbyVars, boardVars, historyVars>>

RoomStateWrite ==
    \E roomCode \in DOMAIN rooms, st \in {"playing", "finished"} :
        /\ rooms[roomCode].state # st
        /\ rooms' = [rooms EXCEPT ![roomCode].state = st]
        /\ result' = [NoCall EXCEPT !.op = "stateWrite", !.code = roomCode]
        /\ UNCHANGED <<playerRoomMap, engineVars, clockVars, coordVars, lobbyVars, boardVars, historyVars>>

vars == <<rooms, playerRoomMap, result, now, engine, answerLog, gameEngines,
          socketPlayerMap, socketData, connection, joined,
          promotedHosts, gamesStarted, lobbyPlayers, chatMessages, leaderboards,
          gameDefinitions, saveTimeout, timers, files, boardCalls,
          lobbyGame, lobbyGameEngine, intervals>>

NextRM ==
    \/ CallCreateRoom
    \/ CallJoinRoom
    \/ CallLeaveRoom
    \/ CallCleanupEmptyRooms
    \/ RoomStateWrite

SpecRM == InitRM /\ [][NextRM]_vars

(***************************************************************************)
(* The directory with one player more than a room holds, so that a room    *)
(* at capacity is asked to take another player.                            *)
(***************************************************************************)
Guests == 1..(maxPlayers + 1)

GuestCreateRoom ==
    \E playerId \in Guests, roomCode \in generateRoomCode(rooms) :
        LET r == createRoom(rooms, playerRoomMap, roomCode, playerId) IN
        /\ rooms' = r.rooms
        /\ playerRoomMap' = r.playerRoomMap
        /\ result' = Called("createRoom", r, playerId)
        /\ UNCHANGED <<engineVars, clockVars, coordVars, lobbyVars, boardVars, historyVars>>

GuestJoinRoom ==
    \E playerId \in Guests, roomCode \in Codes :
        LET r == joinRoom(rooms, playerRoomMap, roomCode, playerId) IN
        /\ rooms' = r.rooms
        /\ playerRoomMap' = r.playerRoomMap
        /\ result' = Called("joinRoom", r, playerId)
        /\ UNCHANGED <<engineVars, clockVars, coordVars, lobbyVars, boardVars, historyVars>>

GuestLeaveRoom ==
    \E playerId \in Guests, roomCode \in Codes :
        LET r == leaveRoom(rooms, playerRoomMap, roomCode, playerId) IN
        /\ rooms' = r.rooms
        /\ playerRoomMap' = r.playerRoomMap
        /\ result' = Called("leaveRoom", r, playerId)
        /\ UNCHANGED <<engineVars, clockVars, coordVars, lobbyVars, boardVars, historyVars>>

NextGuests ==
    \/ GuestCreateRoom
    \/ GuestJoinRoom
    \/ GuestLeaveRoom

SpecGuests == InitRM /\ [][NextGuests]_vars

(***************************************************************************)
(* One engine driven directly through its methods.  It is constructed from *)
(* a prefix of the question list and a roster of 0..NumPlayers players;    *)
(* ids outside the roster are the unknown players.                         *)
(***************************************************************************)
Roster(n) == [i \in 1..n |-> NewPlayer(i, i = 1)]

Prefix(s, n) == [i \in 1..n |-> s[i]]

NoResult ==
    [op |-> "none", success |-> TRUE, error |-> "", playerId |-> NoPlayer,
     answerIndex |-> -1, pointsAwarded |-> 0, isCorrect |-> FALSE,
     question |-> NoQuestion, gameFinished |-> FALSE,
     winner |-> NoPlayer, winners |-> << >>, winnerScore |-> 0,
     isTie |-> FALSE, leaderboard |-> << >>]

InitEngine ==
    /\ rooms = EmptyMap
    /\ playerRoomMap = EmptyMap
    /\ \E n \in 0..NumPlayers, q \in 0..NumQuestions :
          engine = GameEngine(Prefix(mockQuestions, q), Roster(n))
    /\ answerLog = << >>
    /\ now = 0
    /\ result = NoResult
    /\ InitCoordinator

CallStartGame ==
    LET r == startGame(engine, now) IN
    /\ engine' = r.engine
    /\ result' = [NoResult EXCEPT !.op = "startGame", !.success = r.success,
                                  !.error = r.error, !.question = r.question]
    /\ UNCHANGED <<answerLog, rmVars, clockVars, coordVars, lobbyVars, boardVars, historyVars>>

CallSubmitAnswer ==
    \E playerId \in Players, answerIndex \in AnswerInputs :
        LET r == submitAnswer(engine, playerId, answerIndex) IN
        /\ engine' = r.engine
        /\ result' = [NoResult EXCEPT !.op = "submitAnswer",
                          !.success = r.success, !.error = r.error,
                          !.playerId = playerId, !.answerIndex = answerIndex,
                          !.pointsAwarded = r.pointsAwarded,
                          !.isCorrect = r.isCorrect]
        /\ answerLog' = IF r.success
                        THEN Append(answerLog,
                                    [playerId |-> playerId,
                                     answerIndex |-> answerIndex,
                                     pointsAwarded |-> r.pointsAwarded])
                        ELSE answerLog
        /\ UNCHANGED <<rmVars, clockVars, coordVars, lobbyVars, boardVars, historyVars>>

CallNextQuestion ==
    LET r == nextQuestion(engine, now) IN
    /\ engine' = r.engine
    /\ result' = [NoResult EXCEPT !.op = "nextQuestion", !.success = r.success,
                                  !.error = r.error, !.question = r.question,
                                  !.gameFinished = r.gameFinished]
    /\ answerLog' = IF r.success THEN << >> ELSE answerLog
    /\ UNCHANGED <<rmVars, clockVars, coordVars, lobbyVars, boardVars, historyVars>>

CallGetCurrentQuestion ==
    /\ result' = [NoResult EXCEPT !.op = "getCurrentQuestion",
                                  !.question = getCurrentQuestion(engine)]
    /\ UNCHANGED <<engineVars, rmVars, clockVars, coordVars, lobbyVars, boardVars, historyVars>>

CallEndGame ==
    LET r == endGame(engine, now) IN
    /\ engine' = r.engine
    /\ result' = [NoResult EXCEPT !.op = "endGame", !.success = r.success,
                                  !.error = r.error, !.winner = r.winner,
                                  !.winners = r.winners,
                                  !.winnerScore = r.winnerScore,
                                  !.isTie = r.isTie]
    /\ UNCHANGED <<answerLog, rmVars, clockVars, coordVars, lobbyVars, boardVars, historyVars>>

CallGetLeaderboard ==
    /\ result' = [NoResult EXCEPT !.op = "getLeaderboard",
                                  !.leaderboard = getLeaderboard(engine)]
    /\ UNCHANGED <<engineVars, rmVars, clockVars, coordVars, lobbyVars, boardVars, historyVars>>

NextEngine ==
    \/ CallStartGame
    \/ CallSubmitAnswer
    \/ CallNextQuestion
    \/ CallGetCurrentQuestion
    \/ CallEndGame
    \/ CallGetLeaderboard

SpecEngine == InitEngine /\ [][NextEngine]_vars


(***************************************************************************)
(* The coordinator serving NumSockets connections.  A handler reads the    *)
(* whole state, and what it returns is committed in one step.  The        *)
(* connections are accepted at the start; a closed connection never comes  *)
(* back: a reconnecting client is a new connection with a new player id.   *)
(***************************************************************************)
Begin ==
    [rooms |-> rooms, playerRoomMap |-> playerRoomMap,
     gameEngines |-> gameEngines, socketPlayerMap |-> socketPlayerMap,
     socketData |-> socketData, joined |-> joined, emitted |-> << >>,
     lobby |-> [players |-> lobbyPlayers, chatMessages |-> chatMessages,
                lobbyGame |-> lobbyGame],
     lobbyGameEngine |-> lobbyGameEngine, intervals |-> intervals,
     board |-> [leaderboards |-> leaderboards,
                gameDefinitions |-> gameDefinitions,
                saveTimeout |-> saveTimeout, timers |-> timers],
     now |-> now]

Emits(st, type) == \E i \in 1..Len(st.emitted) : st.emitted[i].type = type

\* The players a leave has just made host, with those still host by promotion.
Promotions(rs, rs2, before) ==
    {cp \in before : /\ cp[1] \in DOMAIN rs2
                     /\ \E i \in 1..Len(rs2[cp[1]].players) :
                           /\ rs2[cp[1]].players[i].id = cp[2]
                           /\ rs2[cp[1]].players[i].isHost}
    \cup {cp \in (DOMAIN rs \cap DOMAIN rs2) \X Players :
             /\ \E i \in 1..Len(rs2[cp[1]].players) :
                   /\ rs2[cp[1]].players[i].id = cp[2]
                   /\ rs2[cp[1]].players[i].isHost
             /\ \E i \in 1..Len(rs[cp[1]].players) :
                   /\ rs[cp[1]].players[i].id = cp[2]
                   /\ ~rs[cp[1]].players[i].isHost}

Commit(st) ==
    /\ rooms' = st.rooms
    /\ playerRoomMap' = st.playerRoomMap
    /\ gameEngines' = st.gameEngines
    /\ socketPlayerMap' = st.socketPlayerMap
    /\ socketData' = st.socketData
    /\ joined' = st.joined
    /\ lobbyPlayers' = st.lobby.players
    /\ chatMessages' = st.lobby.chatMessages
    /\ lobbyGame' = st.lobby.lobbyGame
    /\ lobbyGameEngine' = st.lobbyGameEngine
    /\ intervals' = st.intervals
    /\ leaderboards' = st.board.leaderboards
    /\ gameDefinitions' = st.board.gameDefinitions
    /\ saveTimeout' = st.board.saveTimeout
    /\ timers' = st.board.timers
    /\ promotedHosts' = Promotions(rooms, st.rooms, promotedHosts)
    /\ gamesStarted' = IF Emits(st, "game-started")
                          \/ Len(st.intervals) > Len(intervals)
                       THEN gamesStarted + 1 ELSE gamesStarted
    /\ UNCHANGED <<result, engineVars, clockVars, files, boardCalls>>

Open(s) == connection[s] = "open"

OnCreateRoom ==
    \E s \in Sockets, roomCode \in generateRoomCode(rooms) :
        /\ Open(s)
        /\ Commit(handleCreateRoom(Begin, s, roomCode))
        /\ UNCHANGED connection

OnJoinRoom ==
    \E s \in Sockets, roomCode \in Codes :
        /\ Open(s)
        /\ Commit(handleJoinRoom(Begin, s, roomCode))
        /\ UNCHANGED connection

OnLeaveRoom ==
    \E s \in Sockets :
        /\ Open(s)
        /\ Commit(handleLeaveRoom(Begin, s))
        /\ UNCHANGED connection

\* The hosts start at most MaxGames games; a start-game that starts none is
\* issued at any time.
OnStartGame ==
    \E s \in Sockets :
        /\ Open(s)
        /\ Emits(handleStartGame(Begin, s), "game-started")
              => gamesStarted < MaxGames
        /\ Commit(handleStartGame(Begin, s))
        /\ UNCHANGED connection

OnSubmitAnswer ==
    \E s \in Sockets, answerIndex \in AnswerInputs :
        /\ Open(s)
        /\ Commit(handleSubmitAnswer(Begin, s, answerIndex))
        /\ UNCHANGED connection

OnNextQuestion ==
    \E s \in Sockets :
        /\ Open(s)
        /\ Commit(handleNextQuestion(Begin, s))
        /\ UNCHANGED connection

OnJoinLobby ==
    \E s \in Sockets :
        /\ Open(s)
        /\ Commit(handleJoinLobby(Begin, s))
        /\ UNCHANGED connection

OnLeaveLobby ==
    \E s \in Sockets :
        /\ Open(s)
        /\ Commit(handleLeaveLobby(Begin, s))
        /\ UNCHANGED connection

\* socket.io takes a closed socket out of every channel before 'disconnect'.
OnDisconnect ==
    \E s \in Sockets :
        /\ Open(s)
        /\ connection' = [connection EXCEPT ![s] = "closed"]
        /\ Commit(handleDisconnect([Begin EXCEPT !.joined[s] = {}], s))

Init ==
    /\ InitServices
    /\ result = NoCall

Next ==
    \/ OnCreateRoom
    \/ OnJoinRoom
    \/ OnLeaveRoom
    \/ OnStartGame
    \/ OnSubmitAnswer
    \/ OnNextQuestion
    \/ OnDisconnect

Spec == Init /\ [][Next]_vars

(***************************************************************************)
(* The coordinator's membership handlers alone (rooms and lobby, no game). *)
(***************************************************************************)
NextConn ==
    \/ OnCreateRoom
    \/ OnJoinRoom
    \/ OnLeaveRoom
    \/ OnJoinLobby
    \/ OnLeaveLobby
    \/ OnDisconnect

SpecConn == Init /\ [][NextConn]_vars

(***************************************************************************)
(* The coordinator's lobby handlers: the lobby, its game and the countdown *)
(* that starts it.  A further connection is accepted once a lobby game has *)
(* been started.                                                           *)
(***************************************************************************)
\* The 'connection' handler.
OnConnect ==
    \E s \in Sockets :
        /\ connection[s] = "idle"
        /\ gamesStarted > 0
        /\ connection' = [connection EXCEPT ![s] = "open"]
        /\ Commit([Begin EXCEPT
                     !.socketData[s] = NewSocketData(s),
                     !.socketPlayerMap = MapSet(@, s, NewSocketData(s).playerId)])

\* At most MaxGames lobby games are started; a start-lobby-game that starts
\* none is issued at any time.
OnStartLobbyGame ==
    \E s \in Sockets :
        /\ Open(s)
        /\ Len(handleStartLobbyGame(Begin, s).intervals) > Len(intervals)
              => gamesStarted < MaxGames
        /\ Commit(handleStartLobbyGame(Begin, s))
        /\ UNCHANGED connection

OnCountdownTick ==
    \E i \in 1..Len(intervals) :
        /\ Commit(countdownTick(Begin, i))
        /\ UNCHANGED connection

OnSubmitLobbyAnswer ==
    \E s \in Sockets, answerIndex \in AnswerInputs :
        /\ Open(s)
        /\ Commit(handleSubmitLobbyAnswer(Begin, s, answerIndex))
        /\ UNCHANGED connection

OnLobbyNextQuestion ==
    \E s \in Sockets :
        /\ Open(s)
        /\ Commit(handleLobbyNextQuestion(Begin, s))
        /\ UNCHANGED connection

NextLobby ==
    \/ OnConnect
    \/ OnJoinLobby
    \/ OnLeaveLobby
    \/ OnStartLobbyGame
    \/ OnCountdownTick
    \/ OnSubmitLobbyAnswer
    \/ OnLobbyNextQuestion

SpecLobby == Init /\ [][NextLobby]_vars

(***************************************************************************)
(* The lobby's chat: the connections join, leave, disconnect and talk.     *)
(***************************************************************************)
OnLobbyChatMessage ==
    \E s \in Sockets, messageText \in ChatInputs :
        /\ Open(s)
        /\ Commit(handleLobbyChatMessage(Begin, s, messageText))
        /\ UNCHANGED connection

NextChat ==
    \/ OnJoinLobby
    \/ OnLeaveLobby
    \/ OnLobbyChatMessage
    \/ OnDisconnect

SpecChat == Init /\ [][NextChat]_vars

(***************************************************************************)
(* Rooms of one player each and the lobby side by side: every connection   *)
(* creates and leaves rooms, plays its room's game and joins the lobby,    *)
(* whose game is started and counted down meanwhile.                       *)
(***************************************************************************)
OnStartGameOfRoom ==
    \E s \in Sockets :
        /\ Open(s)
        /\ Emits(handleStartGame(Begin, s), "game-started")
              => gamesStarted < MaxSessions
        /\ Commit(handleStartGame(Begin, s))
        /\ UNCHANGED connection

OnStartGameOfLobby ==
    \E s \in Sockets :
        /\ Open(s)
        /\ Len(handleStartLobbyGame(Begin, s).intervals) > Len(intervals)
              => gamesStarted < MaxSessions
        /\ Commit(handleStartLobbyGame(Begin, s))
        /\ UNCHANGED connection

NextSessions ==
    \/ OnCreateRoom
    \/ OnLeaveRoom
    \/ OnStartGameOfRoom
    \/ OnSubmitAnswer
    \/ OnNextQuestion
    \/ OnJoinLobby
    \/ OnStartGameOfLobby
    \/ OnCountdownTick

SpecSessions == Init /\ [][NextSessions]_vars

(***************************************************************************)
(* The leaderboard driven directly through its methods with any           *)
(* arguments, on the clock (SpecBoard); and the leaderboard with the timer *)
(* queue and the two documents it persists, started on documents of any    *)
(* kind: absent, unparsable, or as an earlier run saved them (SpecSave).   *)
(***************************************************************************)
\* The fields of the leaderboard as the methods take them.
Board ==
    [leaderboards |-> leaderboards, gameDefinitions |-> gameDefinitions,
     saveTimeout |-> saveTimeout, timers |-> timers]

\* The configured list; the same questions with other options, which hash
\* alike; and a list with another first question, which hashes apart.
relabelledQuestions ==
    [i \in 1..NumQuestions |->
        [mockQuestions[i] EXCEPT !.options = [k \in 1..NumOptions |-> k + 1]]]

otherQuestions ==
    [i \in 1..NumQuestions |->
        IF i = 1 THEN [mockQuestions[i] EXCEPT !.question = NumQuestions + 1]
        ELSE mockQuestions[i]]

QuestionLists == {mockQuestions, relabelledQuestions, otherQuestions}

\* The sessions that submit: the rooms and the lobby game.
SessionCodes == {1, LobbyRoomCode}

\* The player scores a finished game hands over.
PlayerScores ==
    {<< >>}
    \cup {<<[playerId |-> 1, score |-> a]>> : a \in ScoreInputs}
    \cup {<<[playerId |-> 1, score |-> a], [playerId |-> 2, score |-> b]>> :
             a \in ScoreInputs, b \in {0, BasePoints}}

\* What an earlier run left on disk: one game with one result.
savedLeaderboards ==
    generateGameId(mockQuestions) :>
        <<[playerId |-> 1, score |-> BasePoints, roomCode |-> 1,
           timestamp |-> 0, gameDuration |-> 1]>>

savedGames ==
    generateGameId(mockQuestions) :>
        [gameId |-> generateGameId(mockQuestions),
         questionIds |-> [i \in 1..NumQuestions |-> mockQuestions[i].id],
         questionCount |-> NumQuestions,
         createdAt |-> 0]

InitSave ==
    /\ rooms = EmptyMap
    /\ playerRoomMap = EmptyMap
    /\ engine = GameEngine(<< >>, << >>)
    /\ result = NoCall
    /\ answerLog = << >>
    /\ now = 0
    /\ gameEngines = EmptyMap
    /\ socketPlayerMap = [s \in 1..NumOpenSockets |-> NewSocketData(s).playerId]
    /\ socketData = [s \in Sockets |-> NewSocketData(s)]
    /\ connection = [s \in Sockets |-> IF s <= NumOpenSockets THEN "open" ELSE "idle"]
    /\ joined = [s \in Sockets |-> {}]
    /\ promotedHosts = {}
    /\ gamesStarted = 0
    /\ lobbyPlayers = << >>
    /\ chatMessages = << >>
    /\ lobbyGame = Null
    /\ lobbyGameEngine = Null
    /\ intervals = << >>
    /\ boardCalls = 0
    /\ files \in [leaderboards : {MissingFile, CorruptFile, ValidFile(savedLeaderboards)},
                   games : {MissingFile, CorruptFile, ValidFile(savedGames)}]
    /\ leaderboards = GlobalLeaderboard(files).leaderboards
    /\ gameDefinitions = GlobalLeaderboard(files).gameDefinitions
    /\ saveTimeout = GlobalLeaderboard(files).saveTimeout
    /\ timers = GlobalLeaderboard(files).timers

notBoard == <<rooms, playerRoomMap, result, engine, answerLog, gameEngines,
              socketPlayerMap, socketData, connection, joined, promotedHosts,
              gamesStarted, lobbyPlayers, chatMessages, lobbyGame,
              lobbyGameEngine, intervals>>

SetBoard(b) ==
    /\ leaderboards' = b.leaderboards
    /\ gameDefinitions' = b.gameDefinitions
    /\ saveTimeout' = b.saveTimeout
    /\ timers' = b.timers
    /\ boardCalls' = boardCalls + 1

CallRegisterGame ==
    \E questions \in QuestionLists :
        /\ boardCalls < MaxBoardCalls
        /\ SetBoard(registerGame(Board, questions, now))
        /\ UNCHANGED <<notBoard, now, files>>

CallSubmitGameResults ==
    \E questions \in QuestionLists, roomCode \in SessionCodes,
       playerScores \in PlayerScores :
        /\ boardCalls < MaxBoardCalls
        /\ SetBoard(submitGameResults(Board, questions, roomCode,
                                      playerScores, 1, now))
        /\ UNCHANGED <<notBoard, now, files>>

CallClear ==
    /\ boardCalls < MaxBoardCalls
    /\ SetBoard(clear(Board, now))
    /\ UNCHANGED <<notBoard, now, files>>

CallForceSave ==
    /\ boardCalls < MaxBoardCalls
    /\ SetBoard(forceSave(Board).board)
    /\ files' = forceSave(Board).fs
    /\ UNCHANGED <<notBoard, now>>

\* A save timer that is due fires: its callback writes the documents.
SaveTimerFires ==
    \E tm \in timers :
        /\ tm.due <= now
        /\ timers' = timers \ {tm}
        /\ files' = saveToFiles(Board)
        /\ UNCHANGED <<notBoard, now, leaderboards, gameDefinitions,
                       saveTimeout, boardCalls>>

Tick ==
    /\ now < MaxTime
    /\ now' = now + 1
    /\ UNCHANGED <<notBoard, boardVars, boardCalls>>

\* A session hands in the results of a game over the configured list.
SessionSubmits ==
    \E roomCode \in SessionCodes, playerId \in 1..2, score \in {0, BasePoints} :
        /\ boardCalls < MaxBoardCalls
        /\ SetBoard(submitGameResults(
                       Board, mockQuestions, roomCode,
                       <<[playerId |-> playerId, score |-> score]>>, 1, now))
        /\ UNCHANGED <<notBoard, now, files>>

InitBoard ==
    /\ InitServices
    /\ result = NoCall

NextBoard ==
    \/ CallRegisterGame
    \/ CallSubmitGameResults
    \/ CallClear
    \/ Tick

SpecBoard == InitBoard /\ [][NextBoard]_vars

NextSave ==
    \/ CallRegisterGame
    \/ SessionSubmits
    \/ CallClear
    \/ CallForceSave
    \/ SaveTimerFires
    \/ Tick

SpecSave == InitSave /\ [][NextSave]_vars

(***************************************************************************)
(* The claims.  A claim about what a handler emits or changes is stated of *)
(* the handler's outcome in every reachable state: Begin is the state the  *)
(* handler finds, handleX(Begin, ...) the state and events it leaves.      *)
(***************************************************************************)
InRoom(rs, roomCode, playerId) ==
    /\ roomCode \in DOMAIN rs
    /\ \E i \in 1..Len(rs[roomCode].players) : rs[roomCode].players[i].id = playerId

HasAnsweredIn(e, playerId) ==
    \E i \in 1..Len(e.players) :
        e.players[i].id = playerId /\ e.players[i].hasAnswered

InRoster(e, playerId) == \E i \in 1..Len(e.players) : e.players[i].id = playerId

\* A player of the engine's roster who is no longer in the room.
Departed(roomCode) ==
    {q \in Players : /\ roomCode \in DOMAIN gameEngines
                     /\ InRoster(gameEngines[roomCode], q)
                     /\ ~InRoom(rooms, roomCode, q)}

\* C1: after a player has left a room with an active game, a submission that
\* makes every player still in the room answered broadcasts round-results in
\* the same step.
C1_DepartedPlayerNotAwaited ==
    \A s \in Sockets, answerIndex \in AnswerInputs :
        LET roomCode == socketData[s].currentRoom
            st == handleSubmitAnswer(Begin, s, answerIndex)
        IN (/\ Open(s)
            /\ roomCode \in DOMAIN gameEngines
            /\ Departed(roomCode) # {}
            /\ Emits(st, "player-answered")
            /\ \A i \in 1..Len(st.rooms[roomCode].players) :
                  HasAnsweredIn(st.gameEngines[roomCode],
                                st.rooms[roomCode].players[i].id))
           => Emits(st, "round-results")

\* The events of the kinds named that the handlers emit from the current state.
StartGameEvents ==
    {ev \in UNION {{handleStartGame(Begin, s).emitted[i] :
                      i \in 1..Len(handleStartGame(Begin, s).emitted)} :
                   s \in {t \in Sockets : Open(t)}} : ev.type = "game-started"}

NextQuestionEvents ==
    {ev \in UNION {{handleNextQuestion(Begin, s).emitted[i] :
                      i \in 1..Len(handleNextQuestion(Begin, s).emitted)} :
                   s \in {t \in Sockets : Open(t)}} : ev.type = "next-question"}

\* C2: the payloads of game-started and next-question and the result of
\* getCurrentQuestion never hold the answer key, and round-results, which
\* holds it, is broadcast only when the submission has made every player of
\* the engine's roster answered, for the question they answered.
C2_AnswerKeyOnlyWithRoundResults ==
    /\ \A ev \in StartGameEvents \cup NextQuestionEvents :
          /\ "correctAnswer" \notin DOMAIN ev.question
          /\ ev.correctAnswer = -1
    /\ \A roomCode \in DOMAIN gameEngines :
          "correctAnswer" \notin DOMAIN getCurrentQuestion(gameEngines[roomCode])
    /\ \A s \in Sockets, answerIndex \in AnswerInputs :
          LET roomCode == socketData[s].currentRoom
              st == handleSubmitAnswer(Begin, s, answerIndex)
          IN Open(s) =>
             \A i \in 1..Len(st.emitted) :
                IF st.emitted[i].type = "round-results"
                THEN LET e == st.gameEngines[roomCode] IN
                     /\ \A k \in 1..Len(e.players) : e.players[k].hasAnswered
                     /\ e.currentQuestionIndex =
                           gameEngines[roomCode].currentQuestionIndex
                     /\ st.emitted[i].correctAnswer =
                           mockQuestions[e.currentQuestionIndex + 1].correctAnswer
                ELSE st.emitted[i].correctAnswer = -1

\* A second question has been sent and every player of the roster has answered it.
C2_Witness ==
    \E roomCode \in DOMAIN gameEngines :
        LET e == gameEngines[roomCode] IN
        /\ e.currentQuestionIndex = 1
        /\ Len(e.players) = 2
        /\ \A k \in 1..Len(e.players) : e.players[k].hasAnswered

\* The answer key of the question the engine is at.
CurrentKey == engine.questions[engine.currentQuestionIndex + 1].correctAnswer

ScoreOf(e, playerId) == e.players[findIndex(e.players, playerId)].score

\* C3: of the answers accepted for a question, in submission order, the first
\* correct one awards 150, every later correct one 100 and an incorrect one 0,
\* so at most one player receives 150; the points are added to the player's
\* running total and no other total changes.
C3_PointsRule ==
    \A i \in 1..Len(answerLog) :
        LET a == answerLog[i] IN
        a.pointsAwarded =
            IF a.answerIndex # CurrentKey THEN 0
            ELSE IF \E j \in 1..(i - 1) : answerLog[j].answerIndex = CurrentKey
                 THEN 100 ELSE 150

C3_AtMostOneBonus ==
    Cardinality({i \in 1..Len(answerLog) : answerLog[i].pointsAwarded = 150}) <= 1

C3_PointsAdded ==
    (result'.op = "submitAnswer" /\ result'.success) =>
        \A q \in Players :
            InRoster(engine, q) =>
                ScoreOf(engine', q) =
                    ScoreOf(engine, q) +
                    (IF q = result'.playerId THEN result'.pointsAwarded ELSE 0)

C3_Scoring ==
    /\ [](C3_PointsRule /\ C3_AtMostOneBonus)
    /\ [][C3_PointsAdded]_vars

\* Three players have answered one question correctly: 150, 100, 100.
C3_Witness ==
    /\ Len(answerLog) = 3
    /\ \A i \in 1..3 : answerLog[i].answerIndex = CurrentKey
    /\ engine.currentQuestionIndex = 1
    /\ \E q \in Players : InRoster(engine, q) /\ ScoreOf(engine, q) = 250

\* C4 (as stated): a submitAnswer by a player who has answered the current
\* question fails with 'Player already answered' and changes nothing.
C4_SecondSubmit(precise) ==
    (/\ result'.op = "submitAnswer"
     /\ HasAnsweredIn(engine, result'.playerId))
    => /\ ~result'.success
       /\ engine' = engine
       /\ IF precise /\ engine.gameFinished
          THEN result'.error = "Game already finished"
          ELSE result'.error = "Player already answered"

\* A player is accepted only with the answered flag down, and only
\* nextQuestion takes an answered flag down.
C4_AcceptedAgainOnlyAfterNext ==
    /\ (result'.op = "submitAnswer" /\ result'.success)
          => ~HasAnsweredIn(engine, result'.playerId)
    /\ \A q \in Players :
          (HasAnsweredIn(engine, q) /\ ~HasAnsweredIn(engine', q))
              => (result'.op = "nextQuestion" /\ result'.success)

C4_AsStated ==
    [][C4_SecondSubmit(FALSE) /\ C4_AcceptedAgainOnlyAfterNext]_vars

\* C4 (amended): the second submission fails and changes nothing; the error is
\* 'Player already answered' unless endGame has finished the game meanwhile,
\* and then it is 'Game already finished'.
C4_SecondSubmitRejected ==
    [][C4_SecondSubmit(TRUE) /\ C4_AcceptedAgainOnlyAfterNext]_vars

\* A second submission has just been rejected, after another player scored.
C4_Witness ==
    /\ result.op = "submitAnswer"
    /\ result.error = "Player already answered"
    /\ HasAnsweredIn(engine, result.playerId)
    /\ engine.firstCorrectAnswerer \notin {NoPlayer, result.playerId}

Hosts(room) == {i \in 1..Len(room.players) : room.players[i].isHost}

\* The outcome of a host-only action issued by a member who is not the host:
\* one error, to that member alone, and nothing else changed.
RejectedFor(st, s) ==
    /\ Len(st.emitted) = 1
    /\ st.emitted[1].type = "error"
    /\ st.emitted[1].to = {s}
    /\ st.rooms = rooms
    /\ st.gameEngines = gameEngines
    /\ st.playerRoomMap = playerRoomMap
    /\ st.board = Begin.board

\* C5: start-game and request-next-question of a member who is not the host
\* of its room are answered with an error to that member and change neither
\* the rooms nor the engines (scores included); a host, also one promoted when
\* the former host left, has both actions honoured.
C5_HostOnly ==
    \A s \in Sockets :
        LET roomCode == socketData[s].currentRoom
            playerId == socketData[s].playerId
            start == handleStartGame(Begin, s)
            next == handleNextQuestion(Begin, s)
        IN Open(s) =>
           IF ~IsHostOf(rooms, roomCode, playerId)
           THEN RejectedFor(start, s) /\ RejectedFor(next, s)
           ELSE /\ Emits(start, "game-started")
                /\ start.rooms[roomCode].state = "playing"
                /\ roomCode \in DOMAIN start.gameEngines
                /\ roomCode \in DOMAIN gameEngines
                      => \/ Emits(next, "next-question")
                         \/ Emits(next, "game-ended")

\* A host promoted by the former host's leaving has started a game and
\* advanced it, with a member who is not the host in the room.
C5_Witness ==
    \E cp \in promotedHosts :
        /\ cp[1] \in DOMAIN gameEngines
        /\ gameEngines[cp[1]].currentQuestionIndex = 1
        /\ IsHostOf(rooms, cp[1], cp[2])
        /\ Len(rooms[cp[1]].players) = 2
        /\ socketData[cp[2]].currentRoom = cp[1]

\* C6: every room of the directory has exactly one host.
C6_ExactlyOneHost ==
    \A roomCode \in DOMAIN rooms : Cardinality(Hosts(rooms[roomCode])) = 1

\* The host has just left a room that keeps two players.
C6_Witness ==
    /\ result.op = "leaveRoom"
    /\ result.success
    /\ result.wasHost
    /\ result.code \in DOMAIN rooms
    /\ Len(rooms[result.code].players) = 2

\* C7: when the host leaves and players remain, the first of the remaining
\* players in join order becomes host and no other flag changes; when another
\* player leaves, no flag changes; when the last player leaves, the room is
\* deleted.  The player list is in join order: a join appends.
C7_LeaveStep ==
    (result'.op = "leaveRoom" /\ result'.success) =>
        LET roomCode == result'.code
            old == rooms[roomCode].players
            remaining == SelectSeq(old, LAMBDA pl : pl.id # result'.playerId)
        IN IF remaining = << >> THEN roomCode \notin DOMAIN rooms'
           ELSE /\ roomCode \in DOMAIN rooms'
                /\ LET new == rooms'[roomCode].players IN
                   /\ Len(new) = Len(remaining)
                   /\ \A i \in 1..Len(new) :
                         /\ new[i].id = remaining[i].id
                         /\ new[i].isHost =
                               IF result'.wasHost THEN i = 1
                               ELSE remaining[i].isHost

C7_JoinAppends ==
    (result'.op = "joinRoom" /\ result'.success) =>
        /\ Len(rooms'[result'.code].players) = Len(rooms[result'.code].players) + 1
        /\ \A i \in 1..Len(rooms[result'.code].players) :
              rooms'[result'.code].players[i] = rooms[result'.code].players[i]

C7_HostSuccession == [][C7_LeaveStep /\ C7_JoinAppends]_vars

\* The host has just left a room of three: the second to join is host, the
\* third is not.
C7_Witness ==
    /\ result.op = "leaveRoom"
    /\ result.success
    /\ result.wasHost
    /\ result.code \in DOMAIN rooms
    /\ Len(rooms[result.code].players) = 2
    /\ rooms[result.code].players[1].isHost
    /\ ~rooms[result.code].players[2].isHost

C9_DisconnectedPlayerGone ==
    \A s \in Sockets :
        connection[s] = "closed" =>
            /\ \A roomCode \in DOMAIN rooms :
                  ~InRoom(rooms, roomCode, socketData[s].playerId)
            /\ findIndex(lobbyPlayers, socketData[s].playerId) = 0

\* C10: a failed joinRoom leaves the rooms, their player lists and the
\* player->room index as they were.
C10_FailedJoinChangesNothing ==
    [][(result'.op = "joinRoom" /\ ~result'.success) =>
          (rooms' = rooms /\ playerRoomMap' = playerRoomMap)]_vars

\* A join has just been refused because the game is in progress, by a player
\* who is in another room.
C10_Witness ==
    /\ result.op = "joinRoom"
    /\ result.error = "Game already in progress"
    /\ result.playerId \in DOMAIN playerRoomMap
    /\ playerRoomMap[result.playerId] # result.code

\* C11: joinRoom fails with 'Room not found' when the code names no room,
\* else with 'Room is full' when the room is at capacity, else with 'Player
\* already in room' when the room holds that id, else with 'Game already in
\* progress' when the room's state is not waiting; in every other case it
\* succeeds, appends the player as a non-host at the end of the list and
\* records the room in the index.
C11_JoinStep ==
    (result'.op = "joinRoom") =>
        LET roomCode == result'.code
            playerId == result'.playerId
            refused(msg) == ~result'.success /\ result'.error = msg
        IN IF roomCode \notin DOMAIN rooms THEN refused("Room not found")
           ELSE IF Len(rooms[roomCode].players) >= rooms[roomCode].maxPlayers
                THEN refused("Room is full")
           ELSE IF InRoom(rooms, roomCode, playerId)
                THEN refused("Player already in room")
           ELSE IF rooms[roomCode].state # "waiting"
                THEN refused("Game already in progress")
           ELSE LET old == rooms[roomCode].players
                    new == rooms'[roomCode].players
                IN /\ result'.success
                   /\ Len(new) = Len(old) + 1
                   /\ SubSeq(new, 1, Len(old)) = old
                   /\ new[Len(new)].id = playerId
                   /\ ~new[Len(new)].isHost
                   /\ playerRoomMap'[playerId] = roomCode
                   /\ \A other \in DOMAIN rooms \ {roomCode} :
                         rooms'[other] = rooms[other]

C12_CapacityAndDistinct ==
    \A roomCode \in DOMAIN rooms :
        LET players == rooms[roomCode].players IN
        /\ Len(players) <= maxPlayers
        /\ \A i, j \in 1..Len(players) : players[i].id = players[j].id => i = j

\* A player from outside has just been refused by a room at capacity.
C12_Witness ==
    /\ result.op = "joinRoom"
    /\ result.error = "Room is full"
    /\ ~InRoom(rooms, result.code, result.playerId)
    /\ Len(rooms[result.code].players) = maxPlayers

\* C13: a start-game issued in a room whose game is active is answered with
\* an error and leaves the room's engine (scores, answered flags,
\* first-correct slot, question index) as it was.
C13_StartOfActiveGameRejected ==
    \A s \in Sockets :
        LET roomCode == socketData[s].currentRoom
            st == handleStartGame(Begin, s)
        IN (Open(s) /\ roomCode \in DOMAIN gameEngines) =>
           /\ Emits(st, "error")
           /\ ~Emits(st, "game-started")
           /\ roomCode \in DOMAIN st.gameEngines
           /\ st.gameEngines[roomCode].players = gameEngines[roomCode].players
           /\ st.gameEngines[roomCode].firstCorrectAnswerer =
                 gameEngines[roomCode].firstCorrectAnswerer
           /\ st.gameEngines[roomCode].currentQuestionIndex =
                 gameEngines[roomCode].currentQuestionIndex

\* C14: on a started, unfinished engine with n questions a nextQuestion call
\* succeeds, advances the index by one, lowers every answered flag and clears
\* the first-correct slot; while the new index is below n it returns that
\* question and the game is not finished, and the call that brings the index
\* to n returns no question with gameFinished = TRUE and finishes the engine.
\* The index counts the calls, so that call is the n-th.
C14_NextStep ==
    (result'.op = "nextQuestion" /\ engine.gameStarted /\ ~engine.gameFinished) =>
        LET n == Len(engine.questions)
            k == engine.currentQuestionIndex + 1
        IN /\ result'.success
           /\ engine'.currentQuestionIndex = k
           /\ engine'.firstCorrectAnswerer = NoPlayer
           /\ Len(engine'.players) = Len(engine.players)
           /\ \A i \in 1..Len(engine.players) :
                 /\ ~engine'.players[i].hasAnswered
                 /\ engine'.players[i].score = engine.players[i].score
           /\ IF k < n
              THEN /\ ~result'.gameFinished
                   /\ ~engine'.gameFinished
                   /\ result'.question # NoQuestion
                   /\ result'.question.id = engine.questions[k + 1].id
                   /\ result'.question.currentQuestionNumber = k + 1
                   /\ result'.question.totalQuestions = n
              ELSE /\ result'.gameFinished
                   /\ engine'.gameFinished
                   /\ result'.question = NoQuestion

C14_NextQuestionSequence == [][C14_NextStep]_vars

\* The last of the calls has just finished a game of NumQuestions questions
\* in which a player has scored.
C14_Witness ==
    /\ result.op = "nextQuestion"
    /\ result.gameFinished
    /\ engine.gameFinished
    /\ engine.currentQuestionIndex = NumQuestions
    /\ \E i \in 1..Len(engine.players) : engine.players[i].score > 0

\* C15: the engine goes from not started to playing to finished and never
\* back: a finished engine has been started, the started and the finished
\* flag never fall, and on a finished engine startGame, submitAnswer and
\* nextQuestion fail and leave the engine (scores, answered flags, question
\* index) unchanged.
C15_FinishedIsStarted == engine.gameFinished => engine.gameStarted

C15_Step ==
    /\ engine.gameStarted => engine'.gameStarted
    /\ engine.gameFinished => engine'.gameFinished
    /\ (/\ engine.gameFinished
        /\ result'.op \in {"startGame", "submitAnswer", "nextQuestion"})
       => (~result'.success /\ engine' = engine)

C15_Lifecycle == []C15_FinishedIsStarted /\ [][C15_Step]_vars

\* An answer has just been refused by an engine that has run through all of
\* its questions.
C15_Witness ==
    /\ result.op = "submitAnswer"
    /\ result.error = "Game already finished"
    /\ engine.gameFinished
    /\ engine.currentQuestionIndex = NumQuestions

\* The leaderboard entries of the mockQuestions game that a room has submitted.
EntriesOf(lbs, roomCode) ==
    IF generateGameId(mockQuestions) \in DOMAIN lbs
    THEN SelectSeq(lbs[generateGameId(mockQuestions)],
                   LAMBDA entry : entry.roomCode = roomCode)
    ELSE << >>

\* C16: when the host's request-next-question finishes the game (the engine is
\* at its last question), the handler in that same step registers the game
\* and submits the final scores to the leaderboard (which keeps the best
\* MAX_ENTRIES_PER_GAME entries of a game), broadcasts game-ended with
\* the final scores to the room and discards the engine.  In a room without an
\* engine request-next-question and submit-answer are answered with an error
\* and leave the leaderboard alone, and the leaderboard changes in no step but
\* one that discards an engine and marks its room finished.
C16_FinishingAdvance ==
    \A s \in Sockets :
        LET roomCode == socketData[s].currentRoom
            next == handleNextQuestion(Begin, s)
        IN (/\ Open(s)
            /\ roomCode \in DOMAIN gameEngines
            /\ IsHostOf(rooms, roomCode, socketData[s].playerId)
            /\ gameEngines[roomCode].currentQuestionIndex + 1
                  >= Len(gameEngines[roomCode].questions))
           => LET e == gameEngines[roomCode] IN
              /\ roomCode \notin DOMAIN next.gameEngines
              /\ next.rooms[roomCode].state = "finished"
              /\ generateGameId(mockQuestions) \in DOMAIN next.board.gameDefinitions
              /\ \E tm \in next.board.timers : tm.id = next.board.saveTimeout
              /\ \A i \in 1..Len(e.players) :
                    e.players[i].score > 0 =>
                       LET kept == next.board.leaderboards[generateGameId(mockQuestions)]
                       IN \/ \E k \in 1..Len(kept) :
                                /\ kept[k].roomCode = roomCode
                                /\ kept[k].playerId = e.players[i].id
                                /\ kept[k].score = e.players[i].score
                          \/ /\ Len(kept) = MAX_ENTRIES_PER_GAME
                             /\ \A k \in 1..Len(kept) :
                                   kept[k].score >= e.players[i].score
              /\ Len(next.emitted) = 1
              /\ next.emitted[1].type = "game-ended"
              /\ next.emitted[1].to = {t \in Sockets : roomCode \in joined[t]}
              /\ \A i \in 1..Len(e.players) :
                    next.emitted[1].scores[e.players[i].id] = e.players[i].score

C16_NothingAfterTheEnd ==
    \A s \in Sockets, answerIndex \in AnswerInputs :
        LET next == handleNextQuestion(Begin, s)
            submit == handleSubmitAnswer(Begin, s, answerIndex)
        IN (Open(s) /\ socketData[s].currentRoom \notin DOMAIN gameEngines)
           => /\ Len(next.emitted) = 1 /\ next.emitted[1].type = "error"
              /\ next.emitted[1].to = {s}
              /\ next.board = Begin.board
              /\ Len(submit.emitted) = 1 /\ submit.emitted[1].type = "error"
              /\ submit.emitted[1].to = {s}
              /\ submit.board = Begin.board

C16_SubmittedOnlyAtTheEnd ==
    (leaderboards' # leaderboards) =>
        \E roomCode \in DOMAIN gameEngines \ DOMAIN gameEngines' :
            rooms'[roomCode].state = "finished"

C16_GameEndsOnce ==
    /\ [](C16_FinishingAdvance /\ C16_NothingAfterTheEnd)
    /\ [][C16_SubmittedOnlyAtTheEnd]_vars

\* A game has ended with a score on the leaderboard, its engine is gone and a
\* player is still in the room.
C16_Witness ==
    \E s \in Sockets :
        LET roomCode == socketData[s].currentRoom IN
        /\ Open(s)
        /\ roomCode \in DOMAIN rooms
        /\ rooms[roomCode].state = "finished"
        /\ roomCode \notin DOMAIN gameEngines
        /\ Len(EntriesOf(leaderboards, roomCode)) > 0

\* C17: an engine is stored for a room exactly when the room's state is
\* playing, and only rooms of the directory have engines; a room leaves
\* waiting only for playing, when its engine is stored, and playing only for
\* finished, when its engine is discarded; it never returns to waiting.
C17_EngineIffPlaying ==
    /\ DOMAIN gameEngines \subseteq DOMAIN rooms
    /\ \A roomCode \in DOMAIN rooms :
          (roomCode \in DOMAIN gameEngines) <=> (rooms[roomCode].state = "playing")

C17_StateStep ==
    \A roomCode \in DOMAIN rooms \cap DOMAIN rooms' :
        rooms'[roomCode].state # rooms[roomCode].state =>
            \/ /\ rooms[roomCode].state \in {"waiting", "finished"}
               /\ rooms'[roomCode].state = "playing"
               /\ roomCode \in DOMAIN gameEngines' \ DOMAIN gameEngines
            \/ /\ rooms[roomCode].state = "playing"
               /\ rooms'[roomCode].state = "finished"
               /\ roomCode \in DOMAIN gameEngines \ DOMAIN gameEngines'

C17_StateMirrorsGame == []C17_EngineIffPlaying /\ [][C17_StateStep]_vars

\* One room has finished its game while the other one is still waiting.
C17_Witness ==
    /\ \E roomCode \in DOMAIN rooms :
          rooms[roomCode].state = "finished" /\ roomCode \notin DOMAIN gameEngines
    /\ \E roomCode \in DOMAIN rooms : rooms[roomCode].state = "waiting"

\* C18: every entry player -> code of the index names a room of the directory
\* whose player list holds that player.
C18_NoOrphanedIndexEntry ==
    \A playerId \in DOMAIN playerRoomMap :
        InRoom(rooms, playerRoomMap[playerId], playerId)

\* A player of two rooms has an index entry, while another player has left a
\* room.
C18_Witness ==
    /\ result.op = "leaveRoom"
    /\ result.success
    /\ \E playerId \in DOMAIN playerRoomMap :
          /\ playerId # result.playerId
          /\ \A roomCode \in Codes : InRoom(rooms, roomCode, playerId)

\* The highest score of a roster and the players who have it.
MaxScore(e) ==
    CHOOSE m \in {e.players[i].score : i \in 1..Len(e.players)} :
        \A i \in 1..Len(e.players) : e.players[i].score <= m

TopPlayers(e) ==
    {e.players[i].id : i \in {k \in 1..Len(e.players) : e.players[k].score = MaxScore(e)}}

\* C19: a successful endGame reports as winners exactly the players whose
\* score is the maximum of the roster, each once; isTie holds exactly when
\* they are more than one, and then no single winner is reported; otherwise
\* winner is that player and winnerScore the maximum.
C19_Winners ==
    (result.op = "endGame" /\ result.success) =>
        /\ {result.winners[i] : i \in 1..Len(result.winners)} = TopPlayers(engine)
        /\ Len(result.winners) = Cardinality(TopPlayers(engine))
        /\ result.isTie <=> Cardinality(TopPlayers(engine)) > 1
        /\ result.isTie => result.winner = NoPlayer
        /\ ~result.isTie => /\ TopPlayers(engine) = {result.winner}
                            /\ result.winnerScore = MaxScore(engine)

\* endGame has just reported a tie of two of three players at a score above 0.
C19_Witness ==
    /\ result.op = "endGame"
    /\ result.success
    /\ result.isTie
    /\ Len(engine.players) = 3
    /\ Len(result.winners) = 2
    /\ result.winnerScore > 0

\* C20: getLeaderboard returns every player of the roster exactly once, with
\* the player's score, in descending order of score, and players of equal
\* score in the order of the roster.
C20_Leaderboard ==
    (result.op = "getLeaderboard") =>
        LET lb == result.leaderboard
            pos(k) == findIndex(engine.players, lb[k].playerId)
        IN /\ Len(lb) = Len(engine.players)
           /\ \A i \in 1..Len(engine.players) :
                 Cardinality({k \in 1..Len(lb) :
                                 /\ lb[k].playerId = engine.players[i].id
                                 /\ lb[k].score = engine.players[i].score}) = 1
           /\ \A k \in 1..Len(lb), m \in 1..Len(lb) :
                 k < m => /\ lb[k].score >= lb[m].score
                          /\ lb[k].score = lb[m].score => pos(k) < pos(m)

\* The last player of a roster of three leads a leaderboard whose other two
\* players are level above 0.
C20_Witness ==
    /\ result.op = "getLeaderboard"
    /\ Len(result.leaderboard) = 3
    /\ result.leaderboard[1].playerId = engine.players[3].id
    /\ result.leaderboard[2].score = result.leaderboard[3].score
    /\ result.leaderboard[2].score > 0


(***************************************************************************)
(* The leaderboard's claims are stated of the outcome of a call in every   *)
(* reachable state: Board is the leaderboard the call finds.               *)
(***************************************************************************)
Elements(seq) == {seq[i] : i \in 1..Len(seq)}

GroupOf(board, questions) ==
    IF generateGameId(questions) \in DOMAIN board.leaderboards
    THEN board.leaderboards[generateGameId(questions)] ELSE << >>

\* The entry submitGameResults makes of a player score.
EntryFor(ps, roomCode, gameDuration, t) ==
    [playerId |-> ps.playerId, score |-> ps.score, roomCode |-> roomCode,
     timestamp |-> t, gameDuration |-> gameDuration]

Min(a, b) == IF a < b THEN a ELSE b

\* C25: submitGameResults appends an entry for a player exactly when that
\* player's score is greater than 0: no group ever holds an entry with a
\* score of 0 or less, every entry of the group after the call was there
\* before or is the entry of a positive score of this call, and the entry of
\* a positive score is in the group unless the group is full of entries
\* none of which ranks after it.
C25_PositiveScoresOnly ==
    /\ \A g \in DOMAIN leaderboards : \A e \in Elements(leaderboards[g]) :
          e.score > 0
    /\ \A questions \in QuestionLists, roomCode \in SessionCodes,
          playerScores \in PlayerScores :
          LET after == GroupOf(submitGameResults(Board, questions, roomCode,
                                                 playerScores, 1, now),
                               questions)
              before == GroupOf(Board, questions)
              positive == {i \in 1..Len(playerScores) : playerScores[i].score > 0}
          IN /\ \A e \in Elements(after) : e.score > 0
             /\ Len(after) = Min(MAX_ENTRIES_PER_GAME,
                                 Len(before) + Cardinality(positive))
             /\ \A e \in Elements(after) :
                   \/ e \in Elements(before)
                   \/ \E i \in positive :
                         e = EntryFor(playerScores[i], roomCode, 1, now)
             /\ \A i \in positive :
                   LET e == EntryFor(playerScores[i], roomCode, 1, now)
                   IN \/ e \in Elements(after)
                      \/ /\ Len(after) = MAX_ENTRIES_PER_GAME
                         /\ \A k \in Elements(after) : ~EntryBefore(e, k)

\* Results were submitted, and a further game with a scoreless player and a
\* scoring one is about to hand in its results to a group that is full.
C25_Witness ==
    /\ boardCalls > 0
    /\ Len(GroupOf(Board, mockQuestions)) = MAX_ENTRIES_PER_GAME
    /\ \E e \in Elements(GroupOf(Board, mockQuestions)) : e.timestamp > 0
    /\ \E playerScores \in PlayerScores :
          /\ Len(playerScores) = 2
          /\ playerScores[1].score > 0
          /\ playerScores[2].score = 0
          /\ EntryFor(playerScores[1], 1, 1, now) \notin
                Elements(GroupOf(submitGameResults(Board, mockQuestions, 1,
                                                   playerScores, 1, now),
                                 mockQuestions))


\* The entries a call of submitGameResults pushes onto the group.
PushedBy(playerScores, roomCode, gameDuration, t) ==
    {EntryFor(playerScores[i], roomCode, gameDuration, t) :
        i \in {j \in 1..Len(playerScores) : playerScores[j].score > 0}}

\* C26: every group is ordered by score, highest first, entries of equal
\* score by timestamp, earliest first, and holds at most
\* MAX_ENTRIES_PER_GAME entries; and an entry that submitGameResults cuts off
\* ranks before no entry that it keeps.
C26_OrderedAndCapped ==
    /\ \A g \in DOMAIN leaderboards :
          /\ Len(leaderboards[g]) <= MAX_ENTRIES_PER_GAME
          /\ \A i, j \in 1..Len(leaderboards[g]) :
                i < j =>
                   \/ leaderboards[g][i].score > leaderboards[g][j].score
                   \/ /\ leaderboards[g][i].score = leaderboards[g][j].score
                      /\ leaderboards[g][i].timestamp <= leaderboards[g][j].timestamp
    /\ \A questions \in QuestionLists, roomCode \in SessionCodes,
          playerScores \in PlayerScores :
          LET after == GroupOf(submitGameResults(Board, questions, roomCode,
                                                 playerScores, 1, now),
                               questions)
              offered == Elements(GroupOf(Board, questions))
                            \cup PushedBy(playerScores, roomCode, 1, now)
          IN /\ Elements(after) \subseteq offered
             /\ \A d \in offered \ Elements(after), k \in Elements(after) :
                   \/ d.score < k.score
                   \/ d.score = k.score /\ d.timestamp >= k.timestamp

\* A group holds two entries of equal score handed in at different times,
\* and a game that scores higher is about to push the later one out.
C26_Witness ==
    /\ Len(GroupOf(Board, mockQuestions)) = MAX_ENTRIES_PER_GAME
    /\ GroupOf(Board, mockQuestions)[1].score = GroupOf(Board, mockQuestions)[2].score
    /\ GroupOf(Board, mockQuestions)[1].timestamp < GroupOf(Board, mockQuestions)[2].timestamp
    /\ \E playerScores \in PlayerScores :
          LET after == GroupOf(submitGameResults(Board, mockQuestions, 1,
                                                 playerScores, 1, now),
                               mockQuestions)
          IN /\ after[2] = GroupOf(Board, mockQuestions)[1]
             /\ after[1].score > after[2].score


\* What the game id is computed from: the (id, text, correct index) of every
\* question, in order.
HashedContent(questions) ==
    [i \in 1..Len(questions) |->
        <<questions[i].id, questions[i].question, questions[i].correctAnswer>>]

\* C27: the game id is a function of the ordered (id, text, correct index) of
\* the questions: two lists that agree on these have the same id.  A session
\* that hands in results over a list whose game is registered leaves every
\* game definition as it was, creation time included, and its entries go to
\* the group that holds the earlier sessions' entries; no other group changes.
C27_SameListSameGroup ==
    /\ \A q1, q2 \in QuestionLists :
          HashedContent(q1) = HashedContent(q2)
             => generateGameId(q1) = generateGameId(q2)
    /\ \A questions \in QuestionLists, roomCode \in SessionCodes,
          playerScores \in PlayerScores :
          LET gameId == generateGameId(questions)
              next == submitGameResults(Board, questions, roomCode,
                                        playerScores, 1, now)
          IN /\ gameId \in DOMAIN gameDefinitions
                   => next.gameDefinitions = gameDefinitions
             /\ DOMAIN next.gameDefinitions = DOMAIN gameDefinitions \cup {gameId}
             /\ DOMAIN next.leaderboards = DOMAIN leaderboards \cup {gameId}
             /\ \A g \in DOMAIN leaderboards :
                   g # gameId => next.leaderboards[g] = leaderboards[g]
             /\ Elements(next.leaderboards[gameId])
                   \subseteq Elements(GroupOf(Board, questions))
                                \cup PushedBy(playerScores, roomCode, 1, now)
             /\ Len(GroupOf(Board, questions)) + Len(playerScores)
                      <= MAX_ENTRIES_PER_GAME
                   => Elements(next.leaderboards[gameId])
                         = Elements(GroupOf(Board, questions))
                              \cup PushedBy(playerScores, roomCode, 1, now)

\* A room and, later, the lobby game have handed in results over the
\* configured list: one group holds both entries, and the game is defined as
\* the first of the two registered it.
C27_Witness ==
    /\ DOMAIN leaderboards = {generateGameId(mockQuestions)}
    /\ DOMAIN gameDefinitions = {generateGameId(mockQuestions)}
    /\ \E e1, e2 \in Elements(GroupOf(Board, mockQuestions)) :
          /\ e1.roomCode = 1
          /\ e2.roomCode = LobbyRoomCode
          /\ e1.timestamp < e2.timestamp
          /\ gameDefinitions[generateGameId(mockQuestions)].createdAt = e1.timestamp


\* The one timer a call of scheduleSave at time t leaves pending.
OnlyTimer(board, t) ==
    board.timers = {[id |-> board.saveTimeout, due |-> t + SAVE_DELAY_MS]}

\* What is kept in memory is what the documents hold.
Persisted(board, fs) ==
    /\ GlobalLeaderboard(fs).leaderboards = board.leaderboards
    /\ GlobalLeaderboard(fs).gameDefinitions = board.gameDefinitions

\* At most one write is pending, it is the one the leaderboard holds the
\* handle of, and without a pending write nothing is left to write.
C28_OnePendingWrite ==
    /\ Cardinality(timers) <= 1
    /\ \A tm \in timers : tm.id = saveTimeout /\ tm.due <= now + SAVE_DELAY_MS
    /\ timers = {} => Persisted(Board, files)

\* Registering a new game, handing in results and clear leave exactly one
\* write pending, due a quiet period from now; forceSave writes the state as
\* it is and leaves no write pending and no handle.
C28_Calls ==
    /\ \A questions \in QuestionLists :
          /\ generateGameId(questions) \notin DOMAIN gameDefinitions
                => OnlyTimer(registerGame(Board, questions, now), now)
          /\ \A roomCode \in SessionCodes, playerScores \in PlayerScores :
                OnlyTimer(submitGameResults(Board, questions, roomCode,
                                            playerScores, 1, now), now)
    /\ OnlyTimer(clear(Board, now), now)
    /\ forceSave(Board).fs = saveToFiles(Board)
    /\ forceSave(Board).board =
          [Board EXCEPT !.timers = {}, !.saveTimeout = NoTimer]

\* A step that changes what is kept in memory leaves one write pending, due a
\* quiet period later; a step that takes a write off the queue other than by
\* setting another is that write or forceSave, it comes no earlier than the
\* write was due unless forced, and it writes all that is in memory.
C28_Steps ==
    /\ <<leaderboards, gameDefinitions>>' # <<leaderboards, gameDefinitions>>
          => OnlyTimer([saveTimeout |-> saveTimeout', timers |-> timers'], now)
    /\ (timers # {} /\ timers' = {})
          => /\ files' = saveToFiles(Board)
             /\ <<leaderboards, gameDefinitions>>' = <<leaderboards, gameDefinitions>>
             /\ boardCalls' = boardCalls => \A tm \in timers : tm.due <= now

\* C28: every mutation of the leaderboard schedules a write of the state a
\* quiet period later and cancels the write scheduled before, so that at most
\* one write is pending and the write that comes holds every mutation of the
\* burst; forceSave writes at once and leaves no write pending.
C28_DebouncedSave == [](C28_OnePendingWrite /\ C28_Calls) /\ [][C28_Steps]_vars

\* Two games handed in their results at different times, nothing has been
\* written since the start, and the one pending write is due.
C28_Witness ==
    /\ files.leaderboards.status = "missing"
    /\ Len(GroupOf(Board, mockQuestions)) = 2
    /\ GroupOf(Board, mockQuestions)[1].timestamp
          # GroupOf(Board, mockQuestions)[2].timestamp
    /\ Cardinality(timers) = 1
    /\ \A tm \in timers : tm.due <= now


\* The process has just started: nothing was called and no time has passed.
AtStartup == boardCalls = 0 /\ now = 0 /\ timers = {}

\* C29: when one of the two documents is absent or cannot be parsed, the
\* leaderboard starts with no group and no game definition.
C29_FailedLoadStartsEmpty ==
    (/\ AtStartup
     /\ \/ files.leaderboards.status # "valid"
        \/ files.games.status # "valid")
       => /\ leaderboards = EmptyMap
          /\ gameDefinitions = EmptyMap


(***************************************************************************)
(* The lobby game.                                                         *)
(***************************************************************************)
\* The connections that are in the lobby, and their players.
InLobby == {t \in Sockets : Open(t) /\ socketData[t].inLobby}

LobbyIds == {socketData[t].playerId : t \in InLobby}

LobbyGameState == IF lobbyGame = Null THEN "null" ELSE lobbyGame[1].state

Ids(players) == {players[i].id : i \in 1..Len(players)}

Rejected(st, s) ==
    /\ Len(st.emitted) = 1
    /\ st.emitted[1].type = "error"
    /\ st.emitted[1].to = {s}

\* C21: start-lobby-game succeeds only when at least 2 players are in the
\* lobby and no lobby game is starting or playing; then the lobby game is
\* starting, started by the sender, with the players in the lobby as its
\* snapshot and a fresh engine over them, and no engine was in use before.  A
\* start-lobby-game that fails is answered by an error and leaves the lobby
\* game, the engine and the countdown as they were; with fewer than 2 players
\* in the lobby it fails.  An engine is held only while a game is starting or
\* playing, and at most one countdown runs.
C21_StartLobbyGame ==
    /\ lobbyGameEngine # Null => LobbyGameState \in {"starting", "playing"}
    /\ Len(intervals) <= 1
    /\ \A s \in Sockets :
          Open(s) =>
             LET st == handleStartLobbyGame(Begin, s) IN
             IF Emits(st, "error")
             THEN /\ Rejected(st, s)
                  /\ st.lobby.lobbyGame = lobbyGame
                  /\ st.lobbyGameEngine = lobbyGameEngine
                  /\ st.intervals = intervals
             ELSE /\ s \in InLobby
                  /\ Cardinality(InLobby) >= 2
                  /\ LobbyGameState \notin {"starting", "playing"}
                  /\ lobbyGameEngine = Null
                  /\ st.lobby.lobbyGame[1].state = "starting"
                  /\ st.lobby.lobbyGame[1].startedBy = socketData[s].playerId
                  /\ Ids(st.lobby.lobbyGame[1].players) = LobbyIds
                  /\ Len(st.lobby.lobbyGame[1].players) = Cardinality(LobbyIds)
                  /\ st.lobbyGameEngine =
                        <<GameEngine(mockQuestions,
                             [i \in 1..Len(st.lobby.lobbyGame[1].players) |->
                                 NewPlayer(st.lobby.lobbyGame[1].players[i].id,
                                           st.lobby.lobbyGame[1].players[i].id
                                              = socketData[s].playerId)])>>
                  /\ st.intervals = <<LobbyCountdown>>
    /\ Cardinality(InLobby) < 2
          => \A s \in Sockets : Open(s) => Emits(handleStartLobbyGame(Begin, s), "error")

\* A lobby game is starting with its engine not yet started, and a player of
\* the lobby asks for another.
C21_Witness ==
    /\ LobbyGameState = "starting"
    /\ lobbyGameEngine # Null
    /\ ~lobbyGameEngine[1].gameStarted
    /\ Cardinality(InLobby) >= 2
    /\ \E s \in InLobby : Emits(handleStartLobbyGame(Begin, s), "error")


EngineStarted(e) == e # Null /\ e[1].gameStarted

\* While the lobby game is starting exactly one countdown runs and the
\* engine waits unstarted; every lobby answer is then rejected and changes
\* nothing; a tick broadcasts the value the countdown stands at, and at 0 it
\* ends the countdown and leaves the game playing, its first question
\* broadcast, or cancelled and idle.
C22_Starting ==
    /\ LobbyGameState = "starting" <=> Len(intervals) = 1
    /\ Len(intervals) <= 1
    /\ LobbyGameState = "starting"
          => /\ lobbyGameEngine # Null
             /\ ~EngineStarted(lobbyGameEngine)
             /\ \A s \in Sockets, answerIndex \in AnswerInputs :
                   Open(s) =>
                      LET st == handleSubmitLobbyAnswer(Begin, s, answerIndex)
                      IN /\ Rejected(st, s)
                         /\ st.lobbyGameEngine = lobbyGameEngine
                         /\ st.lobby.lobbyGame = lobbyGame
    /\ \A i \in 1..Len(intervals) :
          LET st == countdownTick(Begin, i) IN
          /\ st.emitted[1].type = "lobby-game-starting"
          /\ st.emitted[1].countdown = intervals[i]
          /\ st.emitted[1].to = {t \in Sockets : LobbyChannel \in joined[t]}
          /\ intervals[i] \in 0..LobbyCountdown
          /\ IF intervals[i] > 0
             THEN /\ Len(st.emitted) = 1
                  /\ st.intervals = <<intervals[i] - 1>>
                  /\ st.lobby.lobbyGame = lobbyGame
                  /\ st.lobbyGameEngine = lobbyGameEngine
             ELSE /\ Len(st.emitted) = 2
                  /\ st.intervals = << >>
                  /\ \/ /\ st.emitted[2].type = "lobby-game-started"
                        /\ st.emitted[2].question
                              = toClientQuestion(st.lobbyGameEngine[1],
                                                 mockQuestions[1])
                        /\ st.lobby.lobbyGame[1].state = "playing"
                        /\ EngineStarted(st.lobbyGameEngine)
                     \/ /\ st.emitted[2].type = "lobby-game-cancelled"
                        /\ st.lobby.lobbyGame[1].state = "idle"
                        /\ ~EngineStarted(st.lobbyGameEngine)

\* The engine is started by the tick at 0 and by nothing else; a countdown
\* begins at LobbyCountdown and goes down by one at a time.
C22_Step ==
    /\ (EngineStarted(lobbyGameEngine') /\ ~EngineStarted(lobbyGameEngine))
          => /\ intervals = <<0>>
             /\ intervals' = << >>
             /\ lobbyGame # Null /\ lobbyGame[1].state = "starting"
             /\ lobbyGame'[1].state = "playing"
    /\ (intervals = << >> /\ intervals' # << >>)
          => intervals' = <<LobbyCountdown>>
    /\ (intervals # << >> /\ intervals' # intervals)
          => \/ intervals' = <<intervals[1] - 1>> /\ intervals[1] > 0
             \/ intervals' = << >> /\ intervals[1] = 0

\* C22: after a start-lobby-game that succeeds the lobby-game-starting values
\* are broadcast from the first down to 0, one a tick, each one less than the
\* one before; the engine is started and lobby-game-started broadcast by the
\* tick at 0 and not before; until then the lobby game is starting and every
\* lobby answer is rejected; after the tick at 0 the game is playing or
\* cancelled and idle, not starting.
C22_Countdown == []C22_Starting /\ [][C22_Step]_vars

\* The countdown has come down to 0 with players waiting in the lobby.
C22_Witness ==
    /\ intervals = <<0>>
    /\ LobbyGameState = "starting"
    /\ InLobby # {}
    /\ Emits(countdownTick(Begin, 1), "lobby-game-started")


\* The lobby game is playing and none of the players of its snapshot is in
\* the lobby.
StaleLobbyGame ==
    /\ LobbyGameState = "playing"
    /\ Ids(lobbyGame[1].players) \cap LobbyIds = {}

\* C23: a start-lobby-game sent while the lobby game is playing without any
\* of its players in the lobby resets the game to idle, and with at least 2
\* players in the lobby starts a new one: it does not leave the game playing.
C23_StaleGameReset ==
    \A s \in InLobby :
       StaleLobbyGame =>
          LET st == handleStartLobbyGame(Begin, s) IN
          /\ st.lobby.lobbyGame[1].state \in {"idle", "starting"}
          /\ Cardinality(InLobby) >= 2 => st.lobby.lobbyGame[1].state = "starting"


\* The players of the lobby engine's roster that are no longer in the lobby.
DepartedFromLobbyGame ==
    IF lobbyGameEngine = Null THEN {}
    ELSE Ids(lobbyGameEngine[1].players) \ LobbyIds

\* C24: after a participant of the lobby game has left the lobby, a
\* submission that makes every participant still in the lobby answered
\* broadcasts lobby-game-round-results in the same step.
C24_DepartedParticipantNotAwaited ==
    \A s \in InLobby, answerIndex \in AnswerInputs :
        LET st == handleSubmitLobbyAnswer(Begin, s, answerIndex)
        IN (/\ DepartedFromLobbyGame # {}
            /\ Emits(st, "lobby-game-player-answered")
            /\ \A q \in Ids(st.lobbyGameEngine[1].players) \cap LobbyIds :
                  HasAnsweredIn(st.lobbyGameEngine[1], q))
           => Emits(st, "lobby-game-round-results")


(***************************************************************************)
(* Rejected actions.                                                       *)
(***************************************************************************)
\* The outcome carries no error, or it is one error with its message sent to
\* the sender alone, and the handler has changed nothing.
ErrorToSenderOnly(st, s) ==
    Emits(st, "error")
       => /\ Rejected(st, s)
          /\ st.emitted[1].error # ""
          /\ [st EXCEPT !.emitted = << >>] = Begin

\* C30: an action that is rejected is answered by an error event sent to the
\* connection that sent the action and to no other, and by no other event:
\* whatever a connection sends, an outcome with an error in it is that one
\* error, for the sender, with the state as it was.  A join-room the
\* directory refuses, a start-game or request-next-question of a connection
\* that is not the host of a room, and a submit-answer without a game or
\* that the engine refuses, are so answered.
C30_ErrorToSenderOnly ==
    \A s \in Sockets :
       Open(s) =>
          /\ \A roomCode \in Codes :
                /\ ErrorToSenderOnly(handleJoinRoom(Begin, s, roomCode), s)
                /\ ~joinRoom(rooms, playerRoomMap, roomCode,
                             socketData[s].playerId).success
                      => Emits(handleJoinRoom(Begin, s, roomCode), "error")
          /\ \A roomCode \in generateRoomCode(rooms) :
                ErrorToSenderOnly(handleCreateRoom(Begin, s, roomCode), s)
          /\ ErrorToSenderOnly(handleLeaveRoom(Begin, s), s)
          /\ ErrorToSenderOnly(handleStartGame(Begin, s), s)
          /\ ErrorToSenderOnly(handleNextQuestion(Begin, s), s)
          /\ ~IsHostOf(rooms, socketData[s].currentRoom, socketData[s].playerId)
                => /\ Emits(handleStartGame(Begin, s), "error")
                   /\ Emits(handleNextQuestion(Begin, s), "error")
          /\ \A answerIndex \in AnswerInputs :
                /\ ErrorToSenderOnly(handleSubmitAnswer(Begin, s, answerIndex), s)
                /\ ErrorToSenderOnly(handleSubmitLobbyAnswer(Begin, s, answerIndex), s)
                /\ (\/ socketData[s].currentRoom \notin DOMAIN gameEngines
                    \/ ~submitAnswer(gameEngines[socketData[s].currentRoom],
                                     socketData[s].playerId, answerIndex).success)
                      => Emits(handleSubmitAnswer(Begin, s, answerIndex), "error")
          /\ ErrorToSenderOnly(handleJoinLobby(Begin, s), s)
          /\ ErrorToSenderOnly(handleLeaveLobby(Begin, s), s)
          /\ ErrorToSenderOnly(handleStartLobbyGame(Begin, s), s)
          /\ ErrorToSenderOnly(handleLobbyNextQuestion(Begin, s), s)
          /\ \A messageText \in ChatInputs :
                ErrorToSenderOnly(handleLobbyChatMessage(Begin, s, messageText), s)

\* Two connections share a room with a game in which one of them has
\* answered: its next answer is rejected in front of the other.
C30_Witness ==
    \E s, t \in Sockets :
       /\ s # t
       /\ Open(s) /\ Open(t)
       /\ socketData[s].currentRoom # NoRoom
       /\ socketData[s].currentRoom = socketData[t].currentRoom
       /\ socketData[s].currentRoom \in DOMAIN gameEngines
       /\ HasAnsweredIn(gameEngines[socketData[s].currentRoom],
                        socketData[s].playerId)
       /\ Emits(handleSubmitAnswer(Begin, s, 0), "error")


(***************************************************************************)
(* The chat history.                                                       *)
(***************************************************************************)
\* The last n elements of a sequence, in their order.
LastN(seq, n) ==
    [i \in 1..Min(n, Len(seq)) |-> seq[Len(seq) - Min(n, Len(seq)) + i]]

\* The history after message is appended to history.
Appended(history, message) == LastN(Append(history, message), MAX_CHAT_HISTORY)

\* The history is within the cap; a message a player of the lobby sends is
\* appended, trimmed of its blanks, and a join or a leave appends its system
\* message: the history is then the last MAX_CHAT_HISTORY of the messages,
\* the new one included, in the order they came.
C31_CapAndOutcomes ==
    /\ Len(chatMessages) <= MAX_CHAT_HISTORY
    /\ \A s \in Sockets :
          Open(s) =>
             /\ \A messageText \in ChatInputs :
                   LET st == handleLobbyChatMessage(Begin, s, messageText) IN
                   IF Emits(st, "error") THEN st.lobby.chatMessages = chatMessages
                   ELSE st.lobby.chatMessages =
                           Appended(chatMessages,
                                    [playerId |-> socketData[s].playerId,
                                     type |-> "message",
                                     message |-> trim(messageText)])
             /\ handleJoinLobby(Begin, s).lobby.chatMessages =
                   Appended(chatMessages,
                            [playerId |-> NoPlayer, type |-> "system",
                             message |-> "joined the lobby"])
             /\ socketData[s].inLobby =>
                   handleLeaveLobby(Begin, s).lobby.chatMessages =
                      Appended(chatMessages,
                               [playerId |-> NoPlayer, type |-> "system",
                                message |-> "left the lobby"])

\* A step that changes the history appends one message to it.
C31_Step ==
    chatMessages' # chatMessages
       => /\ chatMessages' # << >>
          /\ chatMessages' = Appended(chatMessages, chatMessages'[Len(chatMessages')])

\* C31: the chat history never holds more than MAX_CHAT_HISTORY messages;
\* when a user or system message is appended beyond the cap the oldest are
\* dropped, and those kept are the most recent, in their original order.
C31_ChatHistory == []C31_CapAndOutcomes /\ [][C31_Step]_vars

\* The history is full of what players said: the message of their joining
\* has been dropped, and the next message will drop the older of the two.
C31_Witness ==
    /\ Len(chatMessages) = MAX_CHAT_HISTORY
    /\ \A i \in 1..Len(chatMessages) : chatMessages[i].type = "message"
    /\ chatMessages[1] # chatMessages[MAX_CHAT_HISTORY]
    /\ \E s \in Sockets : Open(s) /\ socketData[s].inLobby


(***************************************************************************)
(* C32.  createRoom returns a room whose code no active room had, and it   *)
(* leaves every room that existed, with its players, in the directory as   *)
(* it was.                                                                 *)
(***************************************************************************)
C32_CreateStep ==
    result'.op = "createRoom" =>
        /\ result'.code \notin DOMAIN rooms
        /\ result'.code \in DOMAIN rooms'
        /\ rooms'[result'.code].code = result'.code
        /\ \A roomCode \in DOMAIN rooms :
              /\ roomCode \in DOMAIN rooms'
              /\ rooms'[roomCode] = rooms[roomCode]

C32_FreshCode == [][C32_CreateStep]_vars

\* A room is created while another room with two members exists.
C32_Witness ==
    /\ result.op = "createRoom"
    /\ \E roomCode \in DOMAIN rooms :
          /\ roomCode # result.code
          /\ Len(rooms[roomCode].players) >= 2


(***************************************************************************)
(* C33.  A rejected GameEngine call leaves the engine as it was: startGame *)
(* without questions or players leaves it not started; submitAnswer before *)
(* the start, after the end, by an unknown player, by one who has answered *)
(* or with an index out of range changes no score and no answered flag;    *)
(* after an index out of range the same player's valid answer is accepted. *)
(***************************************************************************)
C33_RejectedStep ==
    (result'.op \in {"startGame", "submitAnswer", "nextQuestion", "endGame"}
        /\ ~result'.success) => engine' = engine

C33_RejectedCalls ==
    /\ LET r == startGame(engine, now) IN
          /\ (Len(engine.questions) = 0 \/ Len(engine.players) = 0) =>
                ~r.success /\ ~r.engine.gameStarted
          /\ (~engine.gameStarted /\ Len(engine.questions) = 0) =>
                r.error = "No questions available"
          /\ (~engine.gameStarted /\ Len(engine.questions) > 0
                /\ Len(engine.players) = 0) => r.error = "No players in game"
    /\ \A playerId \in Players, answerIndex \in AnswerInputs :
          LET r == submitAnswer(engine, playerId, answerIndex)
              question == engine.questions[engine.currentQuestionIndex + 1]
          IN
          /\ (\/ ~engine.gameStarted
              \/ findIndex(engine.players, playerId) = 0
              \/ (~engine.gameFinished /\
                    (answerIndex < 0 \/ answerIndex >= Len(question.options))))
                => ~r.success /\ r.engine = engine
          /\ r.error = "Invalid answer index" =>
                \A valid \in 0..(Len(question.options) - 1) :
                    submitAnswer(r.engine, playerId, valid).success

C33_RejectedCallChangesNothing ==
    []C33_RejectedCalls /\ [][C33_RejectedStep]_vars

\* An answer out of range has just been rejected during a running game in
\* which another player has answered and scored.
C33_Witness ==
    /\ result.op = "submitAnswer"
    /\ result.error = "Invalid answer index"
    /\ \E i \in 1..Len(engine.players) :
          /\ engine.players[i].id = result.playerId
          /\ ~engine.players[i].hasAnswered
    /\ \E i \in 1..Len(engine.players) :
          /\ engine.players[i].hasAnswered
          /\ engine.players[i].score > 0


(***************************************************************************)
(* C34.  The engine works on its own copies of the players.  The Room's    *)
(* player records keep score 0 and hasAnswered false whatever is answered, *)
(* a step that changes an engine leaves the player list of every room as   *)
(* it was, and the scores of round-results, of game-ended and of the       *)
(* entries handed to the leaderboard are those of the engine's copies.     *)
(***************************************************************************)
C34_RoomRecordsUntouched ==
    \A roomCode \in DOMAIN rooms :
        \A i \in 1..Len(rooms[roomCode].players) :
            /\ rooms[roomCode].players[i].score = 0
            /\ ~rooms[roomCode].players[i].hasAnswered

C34_ReportedScores ==
    \A s \in Sockets :
        LET roomCode == socketData[s].currentRoom IN
        (Open(s) /\ roomCode \in DOMAIN gameEngines) =>
            /\ \A answerIndex \in AnswerInputs :
                  LET submit == handleSubmitAnswer(Begin, s, answerIndex) IN
                  /\ submit.rooms = rooms
                  /\ \A k \in 1..Len(submit.emitted) :
                        submit.emitted[k].type = "round-results" =>
                            LET e == submit.gameEngines[roomCode] IN
                            \A i \in 1..Len(e.players) :
                                submit.emitted[k].scores[e.players[i].id]
                                    = e.players[i].score
            /\ LET next == handleNextQuestion(Begin, s)
                   e == gameEngines[roomCode]
                   gameId == generateGameId(mockQuestions)
                   before == IF gameId \in DOMAIN leaderboards
                             THEN Elements(leaderboards[gameId]) ELSE {}
               IN
               /\ \A c \in DOMAIN rooms : next.rooms[c].players = rooms[c].players
               /\ \A k \in 1..Len(next.emitted) :
                     next.emitted[k].type = "game-ended" =>
                        /\ \A i \in 1..Len(e.players) :
                              next.emitted[k].scores[e.players[i].id]
                                  = e.players[i].score
                        /\ \A entry \in Elements(next.board.leaderboards[gameId])
                                           \ before :
                              \E i \in 1..Len(e.players) :
                                 /\ e.players[i].id = entry.playerId
                                 /\ e.players[i].score = entry.score

C34_EngineStep ==
    gameEngines' # gameEngines =>
        \A roomCode \in DOMAIN rooms \cap DOMAIN rooms' :
            rooms'[roomCode].players = rooms[roomCode].players

C34_EngineOwnsItsCopies ==
    /\ [](C34_RoomRecordsUntouched /\ C34_ReportedScores)
    /\ [][C34_EngineStep]_vars

\* A player of a running game has answered and scored on the engine's copy
\* while still being a member of the room.
C34_Witness ==
    \E roomCode \in DOMAIN gameEngines :
        \E i \in 1..Len(gameEngines[roomCode].players) :
            /\ gameEngines[roomCode].players[i].hasAnswered
            /\ gameEngines[roomCode].players[i].score > 0
            /\ roomCode \in DOMAIN rooms
            /\ \E j \in 1..Len(rooms[roomCode].players) :
                  rooms[roomCode].players[j].id
                      = gameEngines[roomCode].players[i].id


(***************************************************************************)
(* C35.  No two rooms share an engine.  A start-game, submit-answer,       *)
(* request-next-question or leave-room of a connection leaves every room   *)
(* other than the connection's own as it was (player list, state), leaves  *)
(* the engine of every other room as it was, and leaves the lobby's engine *)
(* as it was.                                                              *)
(***************************************************************************)
OtherRoomsUntouched(st, roomCode) ==
    /\ st.lobbyGameEngine = lobbyGameEngine
    /\ \A other \in (DOMAIN rooms \cup DOMAIN gameEngines) \ {roomCode} :
          /\ other \in DOMAIN rooms <=> other \in DOMAIN st.rooms
          /\ other \in DOMAIN rooms => st.rooms[other] = rooms[other]
          /\ other \in DOMAIN gameEngines <=> other \in DOMAIN st.gameEngines
          /\ other \in DOMAIN gameEngines =>
                st.gameEngines[other] = gameEngines[other]
    /\ DOMAIN st.rooms \subseteq DOMAIN rooms
    /\ DOMAIN st.gameEngines \subseteq DOMAIN gameEngines \cup {roomCode}

C35_RoomsAreIndependent ==
    \A s \in Sockets :
        LET roomCode == socketData[s].currentRoom IN
        Open(s) =>
            /\ OtherRoomsUntouched(handleStartGame(Begin, s), roomCode)
            /\ \A answerIndex \in AnswerInputs :
                  OtherRoomsUntouched(handleSubmitAnswer(Begin, s, answerIndex),
                                      roomCode)
            /\ OtherRoomsUntouched(handleNextQuestion(Begin, s), roomCode)
            /\ OtherRoomsUntouched(handleLeaveRoom(Begin, s), roomCode)

\* Two rooms run a game each, and only in one of them an answer has been given.
C35_Witness ==
    \E a, b \in DOMAIN gameEngines :
        /\ a # b
        /\ a \in DOMAIN rooms /\ b \in DOMAIN rooms
        /\ \E i \in 1..Len(gameEngines[a].players) :
              gameEngines[a].players[i].hasAnswered
        /\ \A i \in 1..Len(gameEngines[b].players) :
              ~gameEngines[b].players[i].hasAnswered

\* A room runs its game while the lobby runs its own.
C35_LobbyGameBesideRoomGame ==
    /\ lobbyGameEngine # Null
    /\ \E a \in DOMAIN gameEngines : gameEngines[a].gameStarted


(***************************************************************************)
(* C36.  An engine is stored only for a room that exists: every key of the *)
(* room-to-engine map is the code of a room of the directory, and the step *)
(* in which the last player's leaving deletes a room discards its engine.  *)
(***************************************************************************)
C36_EngineKeysAreRooms == DOMAIN gameEngines \subseteq DOMAIN rooms

C36_RoomDeletedStep ==
    \A roomCode \in DOMAIN rooms \ DOMAIN rooms' :
        roomCode \notin DOMAIN gameEngines'

C36_EngineOnlyForRoom == []C36_EngineKeysAreRooms /\ [][C36_RoomDeletedStep]_vars

\* A game was started and never finished, and its room is gone with its engine.
C36_Witness ==
    /\ gamesStarted > 0
    /\ DOMAIN gameDefinitions = {}
    /\ DOMAIN rooms = {}
    /\ DOMAIN gameEngines = {}


(***************************************************************************)
(* C37.  A player id is a member of at most one room at a time, and the    *)
(* index maps every member of every room to that room, so that             *)
(* getRoomByPlayerId returns for each member the room that holds it; also  *)
(* when a connection issues create-room or join-room while in a room.      *)
(***************************************************************************)
C37_OneRoomPerPlayer ==
    \A roomCode \in DOMAIN rooms :
        \A i \in 1..Len(rooms[roomCode].players) :
            LET playerId == rooms[roomCode].players[i].id IN
            /\ \A other \in DOMAIN rooms :
                  InRoom(rooms, other, playerId) => other = roomCode
            /\ getRoomByPlayerId(rooms, playerRoomMap, playerId) = roomCode


(***************************************************************************)
(* C38.  Within one game round-results is broadcast at most once per       *)
(* question.  It is emitted only by the submit-answer that is accepted and *)
(* turns "not every roster player has answered" into "every roster player  *)
(* has answered", once, to the room; no other handler emits it; and an     *)
(* answered flag of a running game is lowered only by the advance to the   *)
(* next question, so that nothing on the same question reveals again.      *)
(***************************************************************************)
Count(st, type) ==
    Cardinality({k \in 1..Len(st.emitted) : st.emitted[k].type = type})

C38_RevealingSubmission ==
    \A s \in Sockets :
        Open(s) =>
        /\ \A answerIndex \in AnswerInputs :
              LET roomCode == socketData[s].currentRoom
                  st == handleSubmitAnswer(Begin, s, answerIndex)
              IN /\ Count(st, "round-results") <= 1
                 /\ Emits(st, "round-results") =>
                       /\ roomCode \in DOMAIN gameEngines
                       /\ ~allAnswered(gameEngines[roomCode])
                       /\ allAnswered(st.gameEngines[roomCode])
                       /\ st.gameEngines[roomCode].currentQuestionIndex
                             = gameEngines[roomCode].currentQuestionIndex
                       /\ Emits(st, "player-answered")
                       /\ \A k \in 1..Len(st.emitted) :
                             st.emitted[k].type = "round-results" =>
                                st.emitted[k].to
                                    = {t \in Sockets : roomCode \in joined[t]}
                 /\ (roomCode \in DOMAIN gameEngines
                        /\ allAnswered(gameEngines[roomCode])) =>
                       /\ ~Emits(st, "round-results")
                       /\ st.gameEngines = gameEngines
        /\ ~Emits(handleStartGame(Begin, s), "round-results")
        /\ ~Emits(handleNextQuestion(Begin, s), "round-results")
        /\ ~Emits(handleLeaveRoom(Begin, s), "round-results")
        /\ ~Emits(handleDisconnect(Begin, s), "round-results")
        /\ \A roomCode \in Codes :
              /\ ~Emits(handleJoinRoom(Begin, s, roomCode), "round-results")
              /\ ~Emits(handleCreateRoom(Begin, s, roomCode), "round-results")

C38_FlagLoweredStep ==
    \A roomCode \in DOMAIN gameEngines \cap DOMAIN gameEngines' :
        (\E i \in 1..Len(gameEngines[roomCode].players) :
            /\ gameEngines[roomCode].players[i].hasAnswered
            /\ ~gameEngines'[roomCode].players[i].hasAnswered)
        => \/ gameEngines'[roomCode].currentQuestionIndex
                 = gameEngines[roomCode].currentQuestionIndex + 1
           \/ gamesStarted' = gamesStarted + 1

C38_OneRevealPerQuestion ==
    []C38_RevealingSubmission /\ [][C38_FlagLoweredStep]_vars

\* The second question of a game of two players has been revealed, the first
\* one having been revealed and left behind.
C38_Witness ==
    \E roomCode \in DOMAIN gameEngines :
        /\ gameEngines[roomCode].currentQuestionIndex = 1
        /\ Len(gameEngines[roomCode].players) = 2
        /\ allAnswered(gameEngines[roomCode])


(***************************************************************************)
(* C39.  Room.state never returns to waiting once a game has been started. *)
(* As stated: from then on every joinRoom to the room fails with 'Game     *)
(* already in progress', also after the game has finished, while the host  *)
(* can still start a further game with the players that remain.            *)
(***************************************************************************)
Started(roomCode) == roomCode \in DOMAIN rooms /\ rooms[roomCode].state # "waiting"

C39_NoWayBackStep ==
    \A roomCode \in DOMAIN rooms \cap DOMAIN rooms' :
        rooms[roomCode].state # "waiting" => rooms'[roomCode].state # "waiting"

C39_JoinRefused ==
    \A roomCode \in Codes, playerId \in Players :
        Started(roomCode) =>
            LET r == joinRoom(rooms, playerRoomMap, roomCode, playerId) IN
            /\ ~r.success
            /\ r.rooms = rooms /\ r.playerRoomMap = playerRoomMap
            /\ r.error =
                  IF Len(rooms[roomCode].players) >= rooms[roomCode].maxPlayers
                  THEN "Room is full"
                  ELSE IF InRoom(rooms, roomCode, playerId)
                       THEN "Player already in room"
                       ELSE "Game already in progress"

C39_HostStartsAgain ==
    \A s \in Sockets :
        LET roomCode == socketData[s].currentRoom
            st == handleStartGame(Begin, s)
        IN (/\ Open(s)
            /\ Started(roomCode)
            /\ rooms[roomCode].state = "finished"
            /\ IsHostOf(rooms, roomCode, socketData[s].playerId))
           => /\ Emits(st, "game-started")
              /\ st.rooms[roomCode].state = "playing"
              /\ st.rooms[roomCode].players = rooms[roomCode].players
              /\ Ids(st.gameEngines[roomCode].players)
                    = Ids(rooms[roomCode].players)
              /\ st.gameEngines[roomCode].gameStarted

RemainingParticipants ==
    {s \in InLobby : socketData[s].playerId \in Ids(lobbyGame[1].players)}

C40_RemainingCanEndGame ==
    (/\ LobbyGameState = "playing"
     /\ lobbyGame[1].startedBy \notin LobbyIds
     /\ RemainingParticipants # {})
    => \E s \in RemainingParticipants :
          \/ ~Rejected(handleLobbyNextQuestion(Begin, s), s)
          \/ handleStartLobbyGame(Begin, s).lobby.lobbyGame[1].state # "playing"

=============================================================================
